---- MODULE Spec2Model ----
(***************************************************************************)
(* Geometry-to-toolpath pipeline of OFFSET_APP:                            *)
(*   comp_poly.py  entity chainer (arrange_entities_systematically)        *)
(*   poly.py       polygon reconstructor, line offset, edge intersector    *)
(*                                                                         *)
(* Coordinates are the 2-decimal values the parsers produce, held as       *)
(* integers in hundredths (1.00 is 100).                                   *)
(***************************************************************************)
EXTENDS Integers, Sequences, FiniteSets, Bags, TLC

VARIABLES
    results,            \* chainer: the caller's list of entity records
    remaining,          \* chainer: references (indices into results) not yet placed
    arranged,           \* chainer: output list under construction
    cpc,                \* chainer: position in arrange_entities_systematically
    lines,              \* poly: the list of segments read from the drawing
    unvisited_lines,    \* poly: set(lines) minus the segments already chained
    current_polygon,    \* poly: the chain under construction
    polygons,           \* poly: the closed chains found so far
    offset_distance,    \* poly: the distance process_dxf was called with
    extracted,          \* poly: what extract_2d_coordinates_and_apply_offset returned
    returned,           \* poly: what process_dxf returned, or the error it let out
    ppc,                \* poly: position in the polygon-offset run
    offset_call,        \* offset: the (line, distance) calculate_offset is called with
    offset_result,      \* offset: what calculate_offset returned or raised
    solve_call,         \* solver: the (eq1, eq2) solve_line_equations is called with
    solve_result,       \* solver: what solve_line_equations returned
    offset_edges,       \* intersector: the offset polygon handed to the intersector
    adjacent_equations_sets,  \* intersector: the pairs of adjacent line equations
    intersection_points,      \* intersector: the points found so far
    next_pair,          \* intersector: position in the loop over the pairs
    trip_call,          \* round trip: the segment and the distance d
    trip_there,         \* round trip: calculate_offset(segment, d)
    trip_back,          \* round trip: calculate_offset of that result by -d
    winding_polygon,    \* winding: the closed polygon whose edges are offset
    winding_distance,   \* winding: the offset distance, in thousandths
    msp,                \* arc stage: the entities of the modelspace, in order
    arc_distance,       \* arc stage: offset_distance
    offset_entities,    \* arc stage: the offset entities emitted so far
    arc_next,           \* arc stage: position of the loop over msp (0 when idle)
    arc_returned,       \* arc stage: what process_dxf returned
    gc_results,         \* emitter: the chained entities handed to generate_gcode
    gc_config,          \* emitter: feed_rate, z_safe and z_cut of the call
    gcode,              \* emitter: the program lines emitted so far
    first_point,        \* emitter: generate_gcode.first_point
    gc_next,            \* emitter: position of the loop over the entities
    gpc,                \* emitter: position in generate_gcode
    dxf_msp,            \* parser: the entities of the drawing's modelspace, in order
    dxf_next,           \* parser: position of the loop over the modelspace (0 when idle)
    preview_polygons,   \* preview: the offset polygons handed to preview_offset
    equations_sets_per_polygon, \* preview: equations_sets of each iteration of the loop, in order
    intersection_points_per_polygon, \* preview: the intersection points of each polygon, in order
    pvpc,               \* preview: position in the loop over the offset polygons
    corner_call,        \* corner: the two segments whose equations are solved
    corner_result       \* corner: empty, or the one value solve_line_equations returned

chainVars == <<results, remaining, arranged, cpc>>

polyVars == <<lines, unvisited_lines, current_polygon, polygons,
              offset_distance, extracted, returned, ppc>>

offsetVars == <<offset_call, offset_result>>

solveVars == <<solve_call, solve_result>>

intersectVars == <<offset_edges, adjacent_equations_sets, intersection_points,
                   next_pair>>

tripVars == <<trip_call, trip_there, trip_back>>

windingVars == <<winding_polygon, winding_distance>>

arcVars == <<msp, arc_distance, offset_entities, arc_next, arc_returned>>

gcodeVars == <<gc_results, gc_config, gcode, first_point, gc_next, gpc>>

parseVars == <<dxf_msp, dxf_next>>

previewVars == <<preview_polygons, equations_sets_per_polygon, intersection_points_per_polygon, pvpc>>

cornerVars == <<corner_call, corner_result>>

vars == <<results, remaining, arranged, cpc,
          lines, unvisited_lines, current_polygon, polygons,
          offset_distance, extracted, returned, ppc,
          offset_call, offset_result, solve_call, solve_result,
          offset_edges, adjacent_equations_sets, intersection_points, next_pair,
          trip_call, trip_there, trip_back,
          winding_polygon, winding_distance,
          msp, arc_distance, offset_entities, arc_next, arc_returned,
          gc_results, gc_config, gcode, first_point, gc_next, gpc,
          dxf_msp, dxf_next,
          preview_polygons, equations_sets_per_polygon, intersection_points_per_polygon, pvpc,
          corner_call, corner_result>>

----------------------------------------------------------------------------
(* Bounds and program constants *)

MaxEntities == 3

MaxLines == 4

\* largest offset distance tried, in thousandths (0.05)
MaxDistance == 50

\* largest distance of a round trip there and back, in thousandths (0.18)
MaxTripDistance == 180

\* most corners of a polygon that is offset and intersected
MaxCorners == 4

\* largest distance such a polygon is offset by, in thousandths (0.08)
MaxWindingDistance == 80

\* most entities in the modelspace of the arc/circle stage
MaxArcEntities == 3

\* largest radius of a circle or arc of that stage
MaxRadius == 2

\* most entities in the chain handed to the G-code emitter
MaxGcodeEntities == 2

\* most entities in the modelspace of a parsed drawing
MaxDxfEntities == 2

\* most offset edges, over all polygons, handed to the preview
MaxPreviewEdges == 4

\* an offset distance is held in thousandths: 10 to a hundredth
DistanceUnit == 10

\* round(v, 2): two decimals, so one unit is 100 hundredths
Scale == 100

\* are_points_equal(..., tolerance=0.001), in thousandths of a unit
ToleranceThousandths == 1

Abs(n) == IF n < 0 THEN -n ELSE n

SeqMin(S) == CHOOSE m \in S : \A k \in S : m <= k

SeqRange(s) == {s[i] : i \in 1..Len(s)}

\* s without its element at position k (list.pop(k))
RemoveAt(s, k) == [i \in 1..(Len(s) - 1) |-> IF i < k THEN s[i] ELSE s[i + 1]]

----------------------------------------------------------------------------
(* Entity records as comp_poly.process_dxf builds them *)

None == <<>>

NoDirection == "None"

ChainPoints == {<<0, 0>>, <<0, Scale>>, <<Scale, 0>>}

\* the three points lie on the circle of this center and radius (70.71)
ArcCenter == <<50, 50>>

ArcRadius == 7071

\* origin of the active UCS: start_point = start_point_wcs - UcsOrigin
UcsOrigin == <<Scale, Scale>>

ToWcs(p) == <<p[1] + UcsOrigin[1], p[2] + UcsOrigin[2]>>

LineEntity(s, e) ==
    [sl_no |-> 0, name |-> <<"", 0>>,
     start_point |-> s, end_point |-> e,
     start_point_wcs |-> ToWcs(s), end_point_wcs |-> ToWcs(e),
     radius |-> 0, direction |-> NoDirection,
     center |-> None, center_wcs |-> None]

ArcEntity(s, e, dir) ==
    [sl_no |-> 0, name |-> <<"", 0>>,
     start_point |-> s, end_point |-> e,
     start_point_wcs |-> ToWcs(s), end_point_wcs |-> ToWcs(e),
     radius |-> ArcRadius, direction |-> dir,
     center |-> ArcCenter, center_wcs |-> ToWcs(ArcCenter)]

\* every line between the points (zero-length ones included) and every arc
\* joining two different points, in both directions of travel
Entities ==
    {LineEntity(s, e) : s \in ChainPoints, e \in ChainPoints}
    \cup {ArcEntity(pr[1], pr[2], dir) :
            pr \in {q \in ChainPoints \X ChainPoints : q[1] # q[2]},
            dir \in {"Clockwise", "Anti-clockwise"}}

----------------------------------------------------------------------------
(* comp_poly.py helpers *)

are_points_equal(point1, point2) ==
    /\ Abs(point1[1] - point2[1]) * 1000 < ToleranceThousandths * Scale
    /\ Abs(point1[2] - point2[2]) * 1000 < ToleranceThousandths * Scale

\* the sort key (x, y) of min(): lexicographic order on start points
KeyLess(p, q) == p[1] < q[1] \/ (p[1] = q[1] /\ p[2] < q[2])

\* find_leftmost_entity taking the last of the entities that tie
find_leftmost_entity_last_on_tie(entities) ==
    LET least == {i \in 1..Len(entities) :
                    \A j \in 1..Len(entities) :
                       /\ ~KeyLess(results[entities[j]].start_point,
                                   results[entities[i]].start_point)}
    IN CHOOSE i \in least : \A j \in least : j <= i

\* position in the list of references `entities` of the first entity whose
\* start_point is minimal (min() returns the first minimal element)
find_leftmost_entity(entities) ==
    SeqMin({i \in 1..Len(entities) :
              \A j \in 1..Len(entities) :
                 /\ ~KeyLess(results[entities[j]].start_point,
                             results[entities[i]].start_point)})

\* list.remove(x): position of the first element equal (by value) to x
FirstEqual(entities, x) ==
    SeqMin({i \in 1..Len(entities) : results[entities[i]] = x})

\* reversing the end points without flipping the direction
reversed_entity_keeps_direction(entity) ==
    [entity EXCEPT
        !.start_point = entity.end_point,
        !.end_point = entity.start_point,
        !.start_point_wcs = entity.end_point_wcs,
        !.end_point_wcs = entity.start_point_wcs]

\* lines 70-76
reversed_entity(entity) ==
    [entity EXCEPT
        !.start_point = entity.end_point,
        !.end_point = entity.start_point,
        !.start_point_wcs = entity.end_point_wcs,
        !.end_point_wcs = entity.start_point_wcs,
        !.direction = IF entity.direction # NoDirection
                      THEN (IF entity.direction = "Anti-clockwise"
                            THEN "Clockwise" ELSE "Anti-clockwise")
                      ELSE entity.direction]

\* find_connected_entity returning the position of the first remaining
\* entity instead of the position of the match
find_connected_entity_first_index(current_entity, remaining_entities) ==
    LET hits == {i \in 1..Len(remaining_entities) :
                   \/ are_points_equal(current_entity.end_point,
                                       results[remaining_entities[i]].start_point)
                   \/ are_points_equal(current_entity.end_point,
                                       results[remaining_entities[i]].end_point)}
    IN IF hits = {}
       THEN [index |-> 0, ref |-> 0, entity |-> current_entity]
       ELSE LET i == SeqMin(hits)
                entity == results[remaining_entities[i]]
            IN IF are_points_equal(current_entity.end_point, entity.start_point)
               THEN [index |-> 1, ref |-> remaining_entities[i], entity |-> entity]
               ELSE [index |-> 1, ref |-> 0, entity |-> reversed_entity(entity)]

\* find_connected_entity that matches on the end point but forgets to
\* reverse the entity
find_connected_entity_no_reversal(current_entity, remaining_entities) ==
    LET hits == {i \in 1..Len(remaining_entities) :
                   \/ are_points_equal(current_entity.end_point,
                                       results[remaining_entities[i]].start_point)
                   \/ are_points_equal(current_entity.end_point,
                                       results[remaining_entities[i]].end_point)}
    IN IF hits = {}
       THEN [index |-> 0, ref |-> 0, entity |-> current_entity]
       ELSE LET i == SeqMin(hits)
                entity == results[remaining_entities[i]]
            IN [index |-> i, ref |-> remaining_entities[i], entity |-> entity]

\* find_connected_entity reversing the caller's record in place instead of
\* a copy of it
find_connected_entity_reverses_in_place(current_entity, remaining_entities) ==
    LET hits == {i \in 1..Len(remaining_entities) :
                   \/ are_points_equal(current_entity.end_point,
                                       results[remaining_entities[i]].start_point)
                   \/ are_points_equal(current_entity.end_point,
                                       results[remaining_entities[i]].end_point)}
    IN IF hits = {}
       THEN [index |-> 0, ref |-> 0, entity |-> current_entity]
       ELSE LET i == SeqMin(hits)
                entity == results[remaining_entities[i]]
            IN IF are_points_equal(current_entity.end_point, entity.start_point)
               THEN [index |-> i, ref |-> remaining_entities[i], entity |-> entity]
               ELSE [index |-> i, ref |-> remaining_entities[i],
                     entity |-> reversed_entity(entity)]

\* [index |-> 0] is (None, None); ref 0 marks a fresh copy (entity.copy())
find_connected_entity(current_entity, remaining_entities) ==
    LET hits == {i \in 1..Len(remaining_entities) :
                   \/ are_points_equal(current_entity.end_point,
                                       results[remaining_entities[i]].start_point)
                   \/ are_points_equal(current_entity.end_point,
                                       results[remaining_entities[i]].end_point)}
    IN IF hits = {}
       THEN [index |-> 0, ref |-> 0, entity |-> current_entity]
       ELSE LET i == SeqMin(hits)
                entity == results[remaining_entities[i]]
            IN IF are_points_equal(current_entity.end_point, entity.start_point)
               THEN [index |-> i, ref |-> remaining_entities[i], entity |-> entity]
               ELSE [index |-> i, ref |-> 0, entity |-> reversed_entity(entity)]

\* the serial/name pass over the first k entries of arr; returns the
\* entries with sl_no and name written (line_count, arc_count are locals)
RECURSIVE CountKind(_, _, _)
CountKind(arr, k, isLine) ==
    IF k = 0 THEN 0
    ELSE CountKind(arr, k - 1, isLine)
         + (IF (arr[k].entity.radius = 0) = isLine THEN 1 ELSE 0)

\* naming with one counter shared by lines and arcs
NameOf_shared_counter(arr, i) ==
    IF arr[i].entity.radius = 0 THEN <<"Line", i>> ELSE <<"Arc", i>>

NameOf(arr, i) ==
    IF arr[i].entity.radius = 0
    THEN <<"Line", 1 + CountKind(arr, i - 1, TRUE)>>
    ELSE <<"Arc", 1 + CountKind(arr, i - 1, FALSE)>>

update_serials(arr) ==
    [i \in 1..Len(arr) |->
        [arr[i] EXCEPT !.entity =
            [arr[i].entity EXCEPT !.sl_no = i, !.name = NameOf(arr, i)]]]

----------------------------------------------------------------------------
(* arrange_entities_systematically, one action per step of its code *)

ChainIdle ==
    /\ results = <<>>
    /\ remaining = <<>>
    /\ arranged = <<>>
    /\ cpc = "idle"

ChainInit ==
    /\ results \in UNION {[1..n -> Entities] : n \in 0..MaxEntities}
    /\ remaining = <<>>
    /\ arranged = <<>>
    /\ cpc = "call"

\* lines 86-87: empty input returns []
ReturnEmpty ==
    /\ cpc = "call"
    /\ results = <<>>
    /\ cpc' = "done"
    /\ UNCHANGED <<results, remaining, arranged>>
    /\ UNCHANGED <<polyVars, offsetVars, solveVars, intersectVars, tripVars, windingVars, arcVars, gcodeVars, parseVars, previewVars, cornerVars>>

\* lines 90-96: copy the list, place the leftmost entity
PlaceSeed ==
    /\ cpc = "call"
    /\ results # <<>>
    /\ LET all == [i \in 1..Len(results) |-> i]
           k == find_leftmost_entity(all)
           r == FirstEqual(all, results[all[k]])
       IN /\ remaining' = RemoveAt(all, r)
          /\ arranged' = <<[ref |-> all[k], entity |-> results[all[k]]]>>
    /\ cpc' = "loop"
    /\ UNCHANGED results
    /\ UNCHANGED <<polyVars, offsetVars, solveVars, intersectVars, tripVars, windingVars, arcVars, gcodeVars, parseVars, previewVars, cornerVars>>

\* the connected entity appended without being taken out of remaining
AppendConnected_without_pop ==
    /\ cpc = "loop"
    /\ remaining # <<>>
    /\ Len(arranged) <= MaxEntities
    /\ LET found == find_connected_entity(arranged[Len(arranged)].entity, remaining)
       IN /\ found.index # 0
          /\ arranged' = Append(arranged, [ref |-> found.ref, entity |-> found.entity])
    /\ UNCHANGED <<results, remaining, cpc>>
    /\ UNCHANGED <<polyVars, offsetVars, solveVars, intersectVars, tripVars, windingVars, arcVars, gcodeVars, parseVars, previewVars, cornerVars>>

\* lines 101-105: a connected entity is found and appended
AppendConnected ==
    /\ cpc = "loop"
    /\ remaining # <<>>
    /\ LET found == find_connected_entity(arranged[Len(arranged)].entity, remaining)
       IN /\ found.index # 0
          /\ arranged' = Append(arranged, [ref |-> found.ref, entity |-> found.entity])
          /\ remaining' = RemoveAt(remaining, found.index)
    /\ UNCHANGED <<results, cpc>>
    /\ UNCHANGED <<polyVars, offsetVars, solveVars, intersectVars, tripVars, windingVars, arcVars, gcodeVars, parseVars, previewVars, cornerVars>>

\* lines 106-110: no connection, start a new chain at the leftmost remaining
StartNewChain ==
    /\ cpc = "loop"
    /\ remaining # <<>>
    /\ find_connected_entity(arranged[Len(arranged)].entity, remaining).index = 0
    /\ LET k == find_leftmost_entity(remaining)
           r == FirstEqual(remaining, results[remaining[k]])
       IN /\ remaining' = RemoveAt(remaining, r)
          /\ arranged' = Append(arranged, [ref |-> remaining[k],
                                           entity |-> results[remaining[k]]])
    /\ UNCHANGED <<results, cpc>>
    /\ UNCHANGED <<polyVars, offsetVars, solveVars, intersectVars, tripVars, windingVars, arcVars, gcodeVars, parseVars, previewVars, cornerVars>>

\* lines 112-124: serial numbers and names; an entry placed verbatim is the
\* caller's own record, so the caller's list sees the write
AssignNames ==
    /\ cpc = "loop"
    /\ remaining = <<>>
    /\ arranged' = update_serials(arranged)
    /\ results' = [i \in 1..Len(results) |->
                     IF \E k \in 1..Len(arranged) : arranged[k].ref = i
                     THEN LET k == CHOOSE k \in 1..Len(arranged) : arranged[k].ref = i
                          IN update_serials(arranged)[k].entity
                     ELSE results[i]]
    /\ cpc' = "done"
    /\ UNCHANGED remaining
    /\ UNCHANGED <<polyVars, offsetVars, solveVars, intersectVars, tripVars, windingVars, arcVars, gcodeVars, parseVars, previewVars, cornerVars>>

ChainNext ==
    \/ ReturnEmpty
    \/ PlaceSeed
    \/ AppendConnected
    \/ StartNewChain
    \/ AssignNames

----------------------------------------------------------------------------
(* poly.py: segments are pairs of points, ((x1, y1), (x2, y2)) *)

PolyPoints == {<<0, 0>>, <<Scale, 0>>, <<Scale, Scale>>, <<0, Scale>>}

Segments == PolyPoints \X PolyPoints

Distances == {-MaxDistance, 0, MaxDistance}

\* a fixed total order on segments
SegKey(l) == ((l[1][1] * 2 + l[1][2]) * 2 + l[2][1]) * 2 + l[2][2]

SegLeq(a, b) == SegKey(a) <= SegKey(b)

\* the non-decreasing lists of at most n segments
RECURSIVE SortedLists(_)
SortedLists(n) ==
    IF n = 0 THEN {<<>>}
    ELSE LET shorter == SortedLists(n - 1)
         IN shorter
            \cup {Append(pr[1], pr[2]) :
                    pr \in {q \in {k \in shorter : Len(k) = n - 1} \X Segments :
                              \/ q[1] = <<>>
                              \/ SegLeq(q[1][Len(q[1])], q[2])}}

\* a call that ended by raising instead of returning
Raised(what) == [raised |-> TRUE, value |-> what]

Returned(v) == [raised |-> FALSE, value |-> v]

NoneTriple == [doc |-> None, polygons |-> None, offset_polygons |-> None]

\* b <= c * sqrt(S) for integers b, c and S >= 0
LeqRoot(b, c, S) ==
    IF b <= 0 /\ c >= 0 THEN TRUE
    ELSE IF b > 0 /\ c < 0 THEN FALSE
    ELSE IF b > 0 THEN b * b <= c * c * S
    ELSE b * b >= c * c * S

Max(a, b) == IF a >= b THEN a ELSE b

\* how an exact half is rounded, per coordinate <<x1, y1, x2, y2>>: round()
\* decides by the binary value of the float sum, which lies on either side
\* of the half; TRUE rounds it up
TieRules == [1..4 -> BOOLEAN]

HalvesDown == [i \in 1..4 |-> FALSE]

\* round_coordinates rounding upwards instead of to the nearest
round_coordinates_ceiling(x, q, dx, dy, up) ==
    LET S == (dx * dx + dy * dy) * DistanceUnit * DistanceUnit
        limit == (Abs(q) \div (DistanceUnit * Max(Abs(dx), Abs(dy)))) + 1
    IN IF q >= 0
       THEN x + CHOOSE k \in 0..limit :
                  /\ k * k * S >= q * q
                  /\ k = 0 \/ (k - 1) * (k - 1) * S < q * q
       ELSE x - CHOOSE k \in 0..limit :
                  /\ k * k * S <= q * q
                  /\ (k + 1) * (k + 1) * S > q * q

\* round(x + q / (DistanceUnit * sqrt(dx^2 + dy^2)), 2) for a 2-decimal x,
\* in hundredths: an integer nearest to the quotient, added to x. k is the
\* magnitude of that integer; two magnitudes qualify when the quotient is
\* exactly a half, and up picks between them.
round_coordinates(x, q, dx, dy, up) ==
    LET S == (dx * dx + dy * dy) * DistanceUnit * DistanceUnit
        limit == (Abs(q) \div (DistanceUnit * Max(Abs(dx), Abs(dy)))) + 1
        near == {k \in 0..limit :
                   /\ k = 0 \/ (2 * k - 1) * (2 * k - 1) * S <= 4 * q * q
                   /\ (2 * k + 1) * (2 * k + 1) * S >= 4 * q * q}
        values == {IF q < 0 THEN x - k ELSE x + k : k \in near}
    IN IF up
       THEN CHOOSE v \in values : \A u \in values : u <= v
       ELSE CHOOSE v \in values : \A u \in values : v <= u

\* calculate_offset with the perpendicular turned the other way, (dy, -dx)
calculate_offset_right_hand(line, distance, ties) ==
    LET x1 == line[1][1]
        y1 == line[1][2]
        x2 == line[2][1]
        y2 == line[2][2]
        dx == x2 - x1
        dy == y2 - y1
    IN IF dx * dx + dy * dy = 0
       THEN Raised("Cannot offset a line with zero length")
       ELSE Returned(<<
               <<round_coordinates(x1, dy * distance, dx, dy, ties[1]),
                 round_coordinates(y1, (-dx) * distance, dx, dy, ties[2])>>,
               <<round_coordinates(x2, dy * distance, dx, dy, ties[3]),
                 round_coordinates(y2, (-dx) * distance, dx, dy, ties[4])>> >>)

\* lines 80-98; distance is in thousandths
calculate_offset(line, distance, ties) ==
    LET x1 == line[1][1]
        y1 == line[1][2]
        x2 == line[2][1]
        y2 == line[2][2]
        dx == x2 - x1
        dy == y2 - y1
    IN IF dx * dx + dy * dy = 0
       THEN Raised("Cannot offset a line with zero length")
       ELSE Returned(<<
               <<round_coordinates(x1, (-dy) * distance, dx, dy, ties[1]),
                 round_coordinates(y1, dx * distance, dx, dy, ties[2])>>,
               <<round_coordinates(x2, (-dy) * distance, dx, dy, ties[3]),
                 round_coordinates(y2, dx * distance, dx, dy, ties[4])>> >>)

\* the segment of unvisited_lines as it is appended after current_line:
\* as stored when its start matches, flipped when only its end matches
Oriented(current_line, other_line) ==
    IF current_line[2] = other_line[1] THEN other_line
    ELSE <<other_line[2], other_line[1]>>

\* matching on the start of the other segment only
Matches_start_only(current_line, other_line) ==
    current_line[2] = other_line[1]

Matches(current_line, other_line) ==
    current_line[2] = other_line[1] \/ current_line[2] = other_line[2]

current_line == current_polygon[Len(current_polygon)]

\* keeping every chain of more than one segment
IsKept_without_closing(polygon) == Len(polygon) > 1

\* line 75: the chain is kept when it has more than one segment and closes
IsKept(polygon) ==
    Len(polygon) > 1 /\ polygon[Len(polygon)][2] = polygon[1][1]

\* the offset loop skipping the lines that cannot be offset instead of
\* giving up: the other lines of every polygon are offset and returned
apply_offset_skips_bad_lines(polys, distance) ==
    Returned([doc |-> "doc", polygons |-> polys,
              offset_polygons |->
                 [i \in 1..Len(polys) |->
                    LET good == SelectSeq(polys[i], LAMBDA l : l[1] # l[2])
                    IN [j \in 1..Len(good) |->
                          calculate_offset(good[j], distance, HalvesDown).value]]])

\* lines 119-129: offset every line of every polygon; the first error
\* raised by calculate_offset is caught and the call returns three Nones.
\* The distances of Distances are multiples of 0.01, which put no
\* coordinate on a half, so the tie rule is immaterial here.
apply_offset(polys, distance) ==
    IF \E i \in 1..Len(polys) : \E j \in 1..Len(polys[i]) :
          calculate_offset(polys[i][j], distance, HalvesDown).raised
    THEN Returned(NoneTriple)
    ELSE Returned([doc |-> "doc", polygons |-> polys,
                   offset_polygons |->
                      [i \in 1..Len(polys) |->
                         [j \in 1..Len(polys[i]) |->
                             calculate_offset(polys[i][j], distance, HalvesDown).value]]])

\* poly.process_dxf lines 9-31 on what the extraction returned
process_dxf(ex) ==
    IF ex.raised THEN Returned(NoneTriple)
    ELSE IF ex.value.polygons = None \/ ex.value.polygons = <<>>
    THEN Returned(NoneTriple)
    ELSE IF ex.value.offset_polygons = None \/ ex.value.offset_polygons = <<>>
    THEN Returned(NoneTriple)
    ELSE IF \E i \in 1..Len(ex.value.offset_polygons) :
               ex.value.offset_polygons[i] = <<>>
    THEN Returned(NoneTriple)
    ELSE Returned(ex.value)

Pending == [raised |-> FALSE, value |-> "pending"]

----------------------------------------------------------------------------
(* The polygon-offset run: process_dxf -> extract_2d_coordinates_and_      *)
(* apply_offset -> group_lines_into_polygon -> calculate_offset            *)

PolyIdle ==
    /\ lines = <<>>
    /\ unvisited_lines = {}
    /\ current_polygon = <<>>
    /\ polygons = <<>>
    /\ offset_distance = 0
    /\ extracted = Pending
    /\ returned = Pending
    /\ ppc = "idle"

\* group_lines_into_polygon reads lines only through set(lines), so the
\* order of the list is immaterial: lists are drawn in non-decreasing order,
\* repeated segments included
PolyInit ==
    /\ lines \in SortedLists(MaxLines)
    /\ offset_distance = 0
    /\ unvisited_lines = {}
    /\ current_polygon = <<>>
    /\ polygons = <<>>
    /\ extracted = Pending
    /\ returned = Pending
    /\ ppc = "group"

\* lines 46-47: no lines, group_lines_into_polygon returns []
GroupNothing ==
    /\ ppc = "group"
    /\ lines = <<>>
    /\ ppc' = "offset"
    /\ UNCHANGED <<lines, unvisited_lines, current_polygon, polygons,
                   offset_distance, extracted, returned>>
    /\ UNCHANGED <<chainVars, offsetVars, solveVars, intersectVars, tripVars, windingVars, arcVars, gcodeVars, parseVars, previewVars, cornerVars>>

\* lines 49-50
GroupStart ==
    /\ ppc = "group"
    /\ lines # <<>>
    /\ unvisited_lines' = SeqRange(lines)
    /\ ppc' = "pop"
    /\ UNCHANGED <<lines, current_polygon, polygons,
                   offset_distance, extracted, returned>>
    /\ UNCHANGED <<chainVars, offsetVars, solveVars, intersectVars, tripVars, windingVars, arcVars, gcodeVars, parseVars, previewVars, cornerVars>>

\* taking the seed without removing it from the set
PopSeed_keeps_seed ==
    /\ ppc = "pop"
    /\ \E seed \in unvisited_lines :
          /\ unvisited_lines' = unvisited_lines
          /\ current_polygon' = <<seed>>
    /\ ppc' = "extend"
    /\ UNCHANGED <<lines, polygons, offset_distance, extracted, returned>>
    /\ UNCHANGED <<chainVars, offsetVars, solveVars, intersectVars, tripVars, windingVars, arcVars, gcodeVars, parseVars, previewVars, cornerVars>>

\* lines 52-54: any unvisited segment may be the one set.pop() hands out
PopSeed ==
    /\ ppc = "pop"
    /\ \E seed \in unvisited_lines :
          /\ unvisited_lines' = unvisited_lines \ {seed}
          /\ current_polygon' = <<seed>>
    /\ ppc' = "extend"
    /\ UNCHANGED <<lines, polygons, offset_distance, extracted, returned>>
    /\ UNCHANGED <<chainVars, offsetVars, solveVars, intersectVars, tripVars, windingVars, arcVars, gcodeVars, parseVars, previewVars, cornerVars>>

\* lines 56-71: the first segment of the scan that matches is appended; the
\* scan order of a set is not fixed, so any matching segment may be first
ExtendChain ==
    /\ ppc = "extend"
    /\ \E other_line \in unvisited_lines :
          /\ Matches(current_line, other_line)
          /\ current_polygon' = Append(current_polygon,
                                       Oriented(current_line, other_line))
          /\ unvisited_lines' = unvisited_lines \ {other_line}
    /\ UNCHANGED <<lines, polygons, offset_distance, extracted, returned, ppc>>
    /\ UNCHANGED <<chainVars, offsetVars, solveVars, intersectVars, tripVars, windingVars, arcVars, gcodeVars, parseVars, previewVars, cornerVars>>

\* lines 72-76: nothing matches; the chain is kept if it closes
EndChain ==
    /\ ppc = "extend"
    /\ ~ \E other_line \in unvisited_lines : Matches(current_line, other_line)
    /\ polygons' = IF IsKept(current_polygon)
                   THEN Append(polygons, current_polygon)
                   ELSE polygons
    /\ current_polygon' = <<>>
    /\ ppc' = "pop"
    /\ UNCHANGED <<lines, unvisited_lines, offset_distance, extracted, returned>>
    /\ UNCHANGED <<chainVars, offsetVars, solveVars, intersectVars, tripVars, windingVars, arcVars, gcodeVars, parseVars, previewVars, cornerVars>>

\* lines 52, 78: no segment left, the polygons are returned
GroupReturn ==
    /\ ppc = "pop"
    /\ unvisited_lines = {}
    /\ ppc' = "offset"
    /\ UNCHANGED <<lines, unvisited_lines, current_polygon, polygons,
                   offset_distance, extracted, returned>>
    /\ UNCHANGED <<chainVars, offsetVars, solveVars, intersectVars, tripVars, windingVars, arcVars, gcodeVars, parseVars, previewVars, cornerVars>>

\* lines 119-129; offset_distance is the distance the run was called with,
\* read here for the first time
ApplyOffset ==
    /\ ppc = "offset"
    /\ \E distance \in Distances :
          /\ offset_distance' = distance
          /\ extracted' = apply_offset(polygons, distance)
    /\ ppc' = "check"
    /\ UNCHANGED <<lines, unvisited_lines, current_polygon, polygons, returned>>
    /\ UNCHANGED <<chainVars, offsetVars, solveVars, intersectVars, tripVars, windingVars, arcVars, gcodeVars, parseVars, previewVars, cornerVars>>

\* process_dxf lines 11-31
ProcessReturn ==
    /\ ppc = "check"
    /\ returned' = process_dxf(extracted)
    /\ ppc' = "returned"
    /\ UNCHANGED <<lines, unvisited_lines, current_polygon, polygons,
                   offset_distance, extracted>>
    /\ UNCHANGED <<chainVars, offsetVars, solveVars, intersectVars, tripVars, windingVars, arcVars, gcodeVars, parseVars, previewVars, cornerVars>>

PolyNext ==
    \/ GroupNothing
    \/ GroupStart
    \/ PopSeed
    \/ ExtendChain
    \/ EndChain
    \/ GroupReturn
    \/ ApplyOffset
    \/ ProcessReturn

----------------------------------------------------------------------------
(* calculate_offset as a function of its arguments *)

OffsetCoords == {0, 30, 40}

OffsetPoints == OffsetCoords \X OffsetCoords

OffsetIdle ==
    /\ offset_call = <<>>
    /\ offset_result = Pending

OffsetInit ==
    /\ offset_call \in (OffsetPoints \X OffsetPoints) \X (-MaxDistance..MaxDistance)
    /\ offset_result = Pending

\* poly.py lines 80-98; equal coordinates go through the same float
\* operations and are rounded alike
CallOffset ==
    /\ offset_call # <<>>
    /\ offset_result = Pending
    /\ \E ties \in TieRules :
          /\ offset_call[1][1][1] = offset_call[1][2][1] => ties[1] = ties[3]
          /\ offset_call[1][1][2] = offset_call[1][2][2] => ties[2] = ties[4]
          /\ offset_result' = calculate_offset(offset_call[1], offset_call[2], ties)
    /\ UNCHANGED <<offset_call, chainVars, polyVars, solveVars, intersectVars, tripVars, windingVars, arcVars, gcodeVars, parseVars, previewVars, cornerVars>>

OffsetNext == CallOffset

----------------------------------------------------------------------------
(* solve_line_equations and find_intersection_points_of_adjacent_lines *)

\* a quotient n / d the code computes in floating point, kept exact
Fraction(n, d) == <<n, d>>

\* solve_line_equations answering the origin for parallel lines
solve_line_equations_parallel_origin(eq1, eq2) ==
    LET denominator == eq1[1] * eq2[2] - eq2[1] * eq1[2]
    IN IF denominator = 0
       THEN <<Fraction(0, 1), Fraction(0, 1)>>
       ELSE <<Fraction(eq1[2] * (-eq2[3]) - eq2[2] * (-eq1[3]), denominator),
              Fraction(eq2[1] * (-eq1[3]) - eq1[1] * (-eq2[3]), denominator)>>

\* lines 210-226
solve_line_equations(eq1, eq2) ==
    LET A1 == eq1[1]
        B1 == eq1[2]
        C1 == eq1[3]
        A2 == eq2[1]
        B2 == eq2[2]
        C2 == eq2[3]
        denominator == A1 * B2 - A2 * B1
    IN IF denominator = 0
       THEN None
       ELSE <<Fraction(B1 * (-C2) - B2 * (-C1), denominator),
              Fraction(A2 * (-C1) - A1 * (-C2), denominator)>>

\* calculate_line_equation with C on the left-hand side: A x + B y + C = 0
calculate_line_equation_C_on_the_left(offset_line) ==
    LET x1 == offset_line[1][1]
        y1 == offset_line[1][2]
        x2 == offset_line[2][1]
        y2 == offset_line[2][2]
        A == y2 - y1
        B == -(x2 - x1)
        C == -(A * x1 + B * y1)
    IN <<A, B, C>>

\* lines 183-189
calculate_line_equation(offset_line) ==
    LET x1 == offset_line[1][1]
        y1 == offset_line[1][2]
        x2 == offset_line[2][1]
        y2 == offset_line[2][2]
        A == y2 - y1
        B == -(x2 - x1)
        C == A * x1 + B * y1
    IN <<A, B, C>>

\* lines 195-208 for one polygon: edge i paired with edge (i + 1) mod n
create_equations_of_adjacent_lines(polygon) ==
    [i \in 1..Len(polygon) |->
        <<calculate_line_equation(polygon[i]),
          calculate_line_equation(polygon[(i % Len(polygon)) + 1])>>]

\* the 2-decimal values round(n / d, 2) can give: the nearest one, and
\* either neighbour when the quotient lies exactly half way (which of the
\* two depends on the binary value of the float quotient)
RoundedValues(f) ==
    LET n == IF f[2] < 0 THEN -f[1] ELSE f[1]
        d == Abs(f[2])
        lo == IF n >= 0 THEN n \div d ELSE -(((-n) + d - 1) \div d)
    IN {r \in {lo, lo + 1} : 2 * Abs(n - r * d) <= d}

\* coefficients the solver is tried on
Coefficients == {-5, -1, 0, 1, 5}

Equations == (-1..1) \X (-1..1) \X Coefficients

SolveIdle ==
    /\ solve_call = <<>>
    /\ solve_result = Pending

SolveInit ==
    /\ solve_call \in Equations \X Equations
    /\ solve_result = Pending

CallSolve ==
    /\ solve_call # <<>>
    /\ solve_result = Pending
    /\ solve_result' = Returned(solve_line_equations(solve_call[1], solve_call[2]))
    /\ UNCHANGED <<solve_call, chainVars, polyVars, offsetVars, intersectVars, tripVars, windingVars, arcVars, gcodeVars, parseVars, previewVars, cornerVars>>

SolveNext == CallSolve

MaxEdges == 3

\* an offset edge is never of zero length
OffsetEdges == {seg \in Segments : seg[1] # seg[2]}

IntersectIdle ==
    /\ offset_edges = <<>>
    /\ adjacent_equations_sets = <<>>
    /\ intersection_points = <<>>
    /\ next_pair = -1

IntersectInit ==
    /\ offset_edges \in UNION {[1..n -> OffsetEdges] : n \in 0..MaxEdges}
    /\ adjacent_equations_sets = <<>>
    /\ intersection_points = <<>>
    /\ next_pair = 0

\* gui_final.py line 322: the equations of one offset polygon
CreateEquations ==
    /\ next_pair = 0
    /\ adjacent_equations_sets' = create_equations_of_adjacent_lines(offset_edges)
    /\ next_pair' = 1
    /\ UNCHANGED <<offset_edges, intersection_points>>
    /\ UNCHANGED <<chainVars, polyVars, offsetVars, solveVars, tripVars, windingVars, arcVars, gcodeVars, parseVars, previewVars, cornerVars>>

\* lines 230-235, a pair that has an intersection
EmitIntersection ==
    /\ next_pair \in 1..Len(adjacent_equations_sets)
    /\ LET intersection == solve_line_equations(adjacent_equations_sets[next_pair][1],
                                                adjacent_equations_sets[next_pair][2])
       IN /\ intersection # None
          /\ \E x \in RoundedValues(intersection[1]) :
             \E y \in RoundedValues(intersection[2]) :
                intersection_points' = Append(intersection_points, <<x, y>>)
    /\ next_pair' = next_pair + 1
    /\ UNCHANGED <<offset_edges, adjacent_equations_sets>>
    /\ UNCHANGED <<chainVars, polyVars, offsetVars, solveVars, tripVars, windingVars, arcVars, gcodeVars, parseVars, previewVars, cornerVars>>

\* lines 230-232, a pair solve_line_equations returns None for
SkipParallel ==
    /\ next_pair \in 1..Len(adjacent_equations_sets)
    /\ solve_line_equations(adjacent_equations_sets[next_pair][1],
                            adjacent_equations_sets[next_pair][2]) = None
    /\ next_pair' = next_pair + 1
    /\ UNCHANGED <<offset_edges, adjacent_equations_sets, intersection_points>>
    /\ UNCHANGED <<chainVars, polyVars, offsetVars, solveVars, tripVars, windingVars, arcVars, gcodeVars, parseVars, previewVars, cornerVars>>

IntersectNext ==
    \/ CreateEquations
    \/ EmitIntersection
    \/ SkipParallel

----------------------------------------------------------------------------
(* poly.py calculate_offset applied there and back: by d, then by -d *)

\* coordinates of short segments, in hundredths: the 3-4-5 triangle has
\* rational unit vectors, which put coordinates on exact halves
TripCoords == {0, 3, 4}

TripPoints == TripCoords \X TripCoords

\* equal coordinates go through the same float operations and are rounded alike
TieRulesFor(line) ==
    {t \in TieRules :
       /\ line[1][1] = line[2][1] => t[1] = t[3]
       /\ line[1][2] = line[2][2] => t[2] = t[4]}

TripIdle ==
    /\ trip_call = <<>>
    /\ trip_there = Pending
    /\ trip_back = Pending

TripInit ==
    /\ trip_call \in {c \in (TripPoints \X TripPoints) \X (-MaxTripDistance..MaxTripDistance) :
                        c[1][1] # c[1][2]}
    /\ trip_there = Pending
    /\ trip_back = Pending

\* poly.py lines 80-98, called with d
OffsetThere ==
    /\ trip_call # <<>>
    /\ trip_there = Pending
    /\ \E ties \in TieRulesFor(trip_call[1]) :
          trip_there' = calculate_offset(trip_call[1], trip_call[2], ties)
    /\ UNCHANGED <<trip_call, trip_back>>
    /\ UNCHANGED <<chainVars, polyVars, offsetVars, solveVars, intersectVars, windingVars, arcVars, gcodeVars, parseVars, previewVars, cornerVars>>

\* poly.py lines 80-98, called on the result with -d
OffsetBack ==
    /\ trip_there # Pending
    /\ ~trip_there.raised
    /\ trip_back = Pending
    /\ \E ties \in TieRulesFor(trip_there.value) :
          trip_back' = calculate_offset(trip_there.value, -trip_call[2], ties)
    /\ UNCHANGED <<trip_call, trip_there>>
    /\ UNCHANGED <<chainVars, polyVars, offsetVars, solveVars, intersectVars, windingVars, arcVars, gcodeVars, parseVars, previewVars, cornerVars>>

TripNext ==
    \/ OffsetThere
    \/ OffsetBack

(* poly.py lines 119-123 followed by the intersector: the edges of a closed
   polygon are offset one by one and cyclically adjacent offset edges are
   intersected (gui_final.py preview_offset) *)

\* corners available to the polygons, in hundredths: a 0.20 x 0.10 rectangle
\* and the middles of its long sides
WindingPoints == {0, 10, 20} \X {0, 10}

\* the edges of the closed loop through the corners v, in order
LoopEdges(v) ==
    [i \in 1..Len(v) |-> <<v[i], v[(i % Len(v)) + 1]>>]

WindingPolygons ==
    {LoopEdges(v) : v \in {w \in UNION {[1..n -> WindingPoints] : n \in 3..MaxCorners} :
                              \A i, j \in 1..Len(w) : i # j => w[i] # w[j]}}

\* distances in steps of 0.005, zero left out
WindingDistances ==
    {d \in (-MaxWindingDistance)..MaxWindingDistance : d % 5 = 0 /\ d # 0}

\* what calculate_offset(line, distance) can return
OffsetOutcomes(line, distance) ==
    {calculate_offset(line, distance, t).value : t \in TieRulesFor(line)}

WindingIdle ==
    /\ winding_polygon = <<>>
    /\ winding_distance = 0

WindingInit ==
    /\ winding_polygon \in WindingPolygons
    /\ winding_distance \in WindingDistances

\* the sequences whose i-th element is drawn from the i-th set
RECURSIVE Products(_)
Products(sets) ==
    IF sets = <<>>
    THEN {<<>>}
    ELSE {<<x>> \o rest : x \in Head(sets), rest \in Products(Tail(sets))}

\* poly.py lines 121-123: offset_polygon = [calculate_offset(line, d) ...]
OffsetPolygon ==
    /\ winding_polygon # <<>>
    /\ next_pair = -1
    /\ offset_edges' \in Products([i \in 1..Len(winding_polygon) |->
                           OffsetOutcomes(winding_polygon[i], winding_distance)])
    /\ next_pair' = 0
    /\ UNCHANGED <<adjacent_equations_sets, intersection_points>>
    /\ UNCHANGED <<chainVars, polyVars, offsetVars, solveVars, tripVars, windingVars, arcVars, gcodeVars, parseVars, previewVars, cornerVars>>

WindingNext ==
    \/ OffsetPolygon
    \/ CreateEquations
    \/ EmitIntersection
    \/ SkipParallel

----------------------------------------------------------------------------
(* arc_circle.py process_dxf: the offset of circles and arcs *)

ArcCenters == {<<0, 0>>, <<5, 5>>}

Radii == 1..MaxRadius

\* from a radius that collapses past zero to one that grows
ArcDistances == (-(MaxRadius + 1))..1

ModelspaceEntities ==
    {[type |-> "CIRCLE", center |-> c, radius |-> r] : c \in ArcCenters, r \in Radii}
    \cup {[type |-> "ARC", center |-> c, radius |-> r, start_angle |-> 30, end_angle |-> 120] :
             c \in ArcCenters, r \in Radii}
    \cup {[type |-> "LINE"]}

\* lines 15-41 with the test new_radius >= 0
offset_entity_keeps_zero(entity, distance) ==
    IF entity.type = "CIRCLE" /\ entity.radius + distance >= 0
    THEN <<[type |-> "CIRCLE", center |-> entity.center,
            radius |-> entity.radius + distance]>>
    ELSE IF entity.type = "ARC" /\ entity.radius + distance >= 0
    THEN <<[type |-> "ARC", center |-> entity.center,
            radius |-> entity.radius + distance,
            start_angle |-> entity.start_angle, end_angle |-> entity.end_angle]>>
    ELSE <<>>

\* lines 15-41: what one entity appends to offset_entities
offset_entity(entity, distance) ==
    IF entity.type = "CIRCLE"
    THEN LET new_radius == entity.radius + distance
         IN IF new_radius > 0
            THEN <<[type |-> "CIRCLE", center |-> entity.center, radius |-> new_radius]>>
            ELSE <<>>
    ELSE IF entity.type = "ARC"
    THEN LET new_radius == entity.radius + distance
         IN IF new_radius > 0
            THEN <<[type |-> "ARC", center |-> entity.center, radius |-> new_radius,
                    start_angle |-> entity.start_angle, end_angle |-> entity.end_angle]>>
            ELSE <<>>
    ELSE <<>>

ArcIdle ==
    /\ msp = <<>>
    /\ arc_distance = 0
    /\ offset_entities = <<>>
    /\ arc_next = 0
    /\ arc_returned = Pending

\* lines 10-12
ArcInit ==
    /\ msp \in UNION {[1..n -> ModelspaceEntities] : n \in 0..MaxArcEntities}
    /\ arc_distance \in ArcDistances
    /\ offset_entities = <<>>
    /\ arc_next = 1
    /\ arc_returned = Pending

\* lines 14-41, an entity that is appended with its new radius
EmitOffsetEntity ==
    /\ arc_next \in 1..Len(msp)
    /\ offset_entity(msp[arc_next], arc_distance) # <<>>
    /\ offset_entities' = offset_entities \o offset_entity(msp[arc_next], arc_distance)
    /\ arc_next' = arc_next + 1
    /\ UNCHANGED <<msp, arc_distance, arc_returned>>
    /\ UNCHANGED <<chainVars, polyVars, offsetVars, solveVars, intersectVars, tripVars, windingVars, gcodeVars, parseVars, previewVars, cornerVars>>

\* lines 14-41, an entity that appends nothing
DropEntity ==
    /\ arc_next \in 1..Len(msp)
    /\ offset_entity(msp[arc_next], arc_distance) = <<>>
    /\ arc_next' = arc_next + 1
    /\ UNCHANGED <<msp, arc_distance, offset_entities, arc_returned>>
    /\ UNCHANGED <<chainVars, polyVars, offsetVars, solveVars, intersectVars, tripVars, windingVars, gcodeVars, parseVars, previewVars, cornerVars>>

\* lines 43-44
ReturnOffsetEntities ==
    /\ arc_next = Len(msp) + 1
    /\ arc_returned = Pending
    /\ arc_returned' = Returned(offset_entities)
    /\ UNCHANGED <<msp, arc_distance, offset_entities, arc_next>>
    /\ UNCHANGED <<chainVars, polyVars, offsetVars, solveVars, intersectVars, tripVars, windingVars, gcodeVars, parseVars, previewVars, cornerVars>>

ArcNext ==
    \/ EmitOffsetEntity
    \/ DropEntity
    \/ ReturnOffsetEntities

----------------------------------------------------------------------------
(* comp_poly.py generate_gcode: the G-code emitter *)

\* a program line: its fixed words and its numeric words in order. X, Y, I
\* and J are written with two decimals and are held in hundredths; Z, F are
\* written as given
Gline(code, args) == [code |-> code, args |-> args]

\* emitter configurations: the defaults and other values of each setting
Configurations ==
    [feed_rate : {200, 150}, z_safe : {200, 50}, z_cut : {0, -1}]

\* the preamble with the coolant turned on before the plunge
Preamble_coolant_before_plunge(config) ==
    << Gline("G00 G54 G17 G90 G40", <<>>),
       Gline("G00", << <<"Z", config.z_safe>> >>),
       Gline("M6 T07", <<>>),
       Gline("G00", << <<"X", 100 * Scale>>, <<"Y", 100 * Scale>> >>),
       Gline("M03 S500", <<>>),
       Gline("G00", << <<"Z", 2>> >>),
       Gline("M07", <<>>),
       Gline("G01", << <<"Z", config.z_cut>>, <<"F", config.feed_rate>> >>),
       Gline("G01 G42", << <<"X", 80 * Scale>>, <<"Y", 0>> >>) >>

\* lines 134-142
Preamble(config) ==
    << Gline("G00 G54 G17 G90 G40", <<>>),
       Gline("G00", << <<"Z", config.z_safe>> >>),
       Gline("M6 T07", <<>>),
       Gline("G00", << <<"X", 100 * Scale>>, <<"Y", 100 * Scale>> >>),
       Gline("M03 S500", <<>>),
       Gline("G00", << <<"Z", 2>> >>),
       Gline("G01", << <<"Z", config.z_cut>>, <<"F", config.feed_rate>> >>),
       Gline("M07", <<>>),
       Gline("G01 G42", << <<"X", 80 * Scale>>, <<"Y", 0>> >>) >>

\* lines 147-151: the rapid move to the start point and the plunge
Approach(entity, config) ==
    << Gline("G00", << <<"X", entity.start_point[1]>>, <<"Y", entity.start_point[2]>> >>),
       Gline("G01", << <<"Z", config.z_cut>>, <<"F", config.feed_rate>> >>) >>

\* lines 153-155
LinearMotion(entity, config) ==
    Gline("G01", << <<"X", entity.end_point[1]>>, <<"Y", entity.end_point[2]>>,
                    <<"F", config.feed_rate>> >>)

\* lines 157-167 with I and J taken from the end point
CircularMotion_from_end_point(entity, config) ==
    Gline(IF entity.direction = "Clockwise" THEN "G02" ELSE "G03",
          << <<"X", entity.end_point[1]>>, <<"Y", entity.end_point[2]>>,
             <<"I", entity.center[1] - entity.end_point[1]>>,
             <<"J", entity.center[2] - entity.end_point[2]>>,
             <<"F", config.feed_rate>> >>)

\* lines 157-167
CircularMotion(entity, config) ==
    LET i == entity.center[1] - entity.start_point[1]
        j == entity.center[2] - entity.start_point[2]
        g_command == IF entity.direction = "Clockwise" THEN "G02" ELSE "G03"
    IN Gline(g_command,
             << <<"X", entity.end_point[1]>>, <<"Y", entity.end_point[2]>>,
                <<"I", i>>, <<"J", j>>, <<"F", config.feed_rate>> >>)

\* lines 170-171
Postamble ==
    << Gline("G00 G40", << <<"Z", 200>> >>),
       Gline("M30", <<>>) >>

GcodeIdle ==
    /\ gc_results = <<>>
    /\ gc_config = <<>>
    /\ gcode = <<>>
    /\ first_point = FALSE
    /\ gc_next = 0
    /\ gpc = "idle"

GcodeInit ==
    /\ gc_results \in UNION {[1..n -> Entities] : n \in 0..MaxGcodeEntities}
    /\ gc_config \in Configurations
    /\ gcode = <<>>
    /\ first_point = FALSE
    /\ gc_next = 0
    /\ gpc = "call"

\* lines 131-144
StartProgram ==
    /\ gpc = "call"
    /\ gcode' = Preamble(gc_config)
    /\ first_point' = TRUE
    /\ gc_next' = 1
    /\ gpc' = "loop"
    /\ UNCHANGED <<gc_results, gc_config>>
    /\ UNCHANGED <<chainVars, polyVars, offsetVars, solveVars, intersectVars, tripVars, windingVars, arcVars, parseVars, previewVars, cornerVars>>

\* LinearMove that approaches and plunges before every line, not only the first
LinearMove_always_approaches ==
    /\ gpc = "loop"
    /\ gc_next \in 1..Len(gc_results)
    /\ gc_results[gc_next].radius = 0
    /\ gcode' = gcode
                \o Approach(gc_results[gc_next], gc_config)
                \o <<LinearMotion(gc_results[gc_next], gc_config)>>
    /\ first_point' = FALSE
    /\ gc_next' = gc_next + 1
    /\ UNCHANGED <<gc_results, gc_config, gpc>>
    /\ UNCHANGED <<chainVars, polyVars, offsetVars, solveVars, intersectVars, tripVars, windingVars, arcVars, parseVars, previewVars, cornerVars>>

\* lines 146-155: one iteration on an entity with radius 0
LinearMove ==
    /\ gpc = "loop"
    /\ gc_next \in 1..Len(gc_results)
    /\ gc_results[gc_next].radius = 0
    /\ gcode' = gcode
                \o (IF first_point THEN Approach(gc_results[gc_next], gc_config) ELSE <<>>)
                \o <<LinearMotion(gc_results[gc_next], gc_config)>>
    /\ first_point' = FALSE
    /\ gc_next' = gc_next + 1
    /\ UNCHANGED <<gc_results, gc_config, gpc>>
    /\ UNCHANGED <<chainVars, polyVars, offsetVars, solveVars, intersectVars, tripVars, windingVars, arcVars, parseVars, previewVars, cornerVars>>

\* lines 146-151 and 157-167: one iteration on an entity with another radius
CircularMove ==
    /\ gpc = "loop"
    /\ gc_next \in 1..Len(gc_results)
    /\ gc_results[gc_next].radius # 0
    /\ gcode' = gcode
                \o (IF first_point THEN Approach(gc_results[gc_next], gc_config) ELSE <<>>)
                \o <<CircularMotion(gc_results[gc_next], gc_config)>>
    /\ first_point' = FALSE
    /\ gc_next' = gc_next + 1
    /\ UNCHANGED <<gc_results, gc_config, gpc>>
    /\ UNCHANGED <<chainVars, polyVars, offsetVars, solveVars, intersectVars, tripVars, windingVars, arcVars, parseVars, previewVars, cornerVars>>

\* lines 169-173
EndProgram ==
    /\ gpc = "loop"
    /\ gc_next = Len(gc_results) + 1
    /\ gcode' = gcode \o Postamble
    /\ gpc' = "done"
    /\ UNCHANGED <<gc_results, gc_config, first_point, gc_next>>
    /\ UNCHANGED <<chainVars, polyVars, offsetVars, solveVars, intersectVars, tripVars, windingVars, arcVars, parseVars, previewVars, cornerVars>>

GcodeNext ==
    \/ StartProgram
    \/ LinearMove
    \/ CircularMove
    \/ EndProgram

----------------------------------------------------------------------------
(* comp_poly.py process_dxf: the entity records built from a drawing, which
   the caller hands to arrange_entities_systematically *)

\* end points and centers in the drawing (WCS), in hundredths
DxfPoints == {<<Scale, Scale>>, <<2 * Scale, Scale>>}

\* radii in the drawing, in thousandths: 0.004 and 1.0
DxfRadii == {4, 1000}

\* angles whose cosine and sine are whole numbers
DxfAngles == {0, 90, 180, 270}

\* start and end angle of an arc: a quarter turn either way
DxfSweeps == {<<0, 90>>, <<90, 0>>}

Cos(a) == CASE a = 0 -> 1 [] a = 90 -> 0 [] a = 180 -> -1 [] a = 270 -> 0

Sin(a) == CASE a = 0 -> 0 [] a = 90 -> 1 [] a = 180 -> 0 [] a = 270 -> -1

DxfEntities ==
    {[type |-> "LINE", start |-> s, end |-> e] : s \in DxfPoints, e \in DxfPoints}
    \cup {[type |-> "ARC", center |-> c, radius |-> r,
            start_angle |-> sweep[1], end_angle |-> sweep[2]] :
             c \in {<<Scale, Scale>>}, r \in DxfRadii, sweep \in DxfSweeps}
    \cup {[type |-> "CIRCLE"]}

\* transform_wcs_to_ucs for the active UCS, an origin shift
ToUcs(p) == <<p[1] - UcsOrigin[1], p[2] - UcsOrigin[2]>>

\* lines 252-278
line_record(entity) ==
    [sl_no |-> 0, name |-> <<"", 0>>,
     start_point |-> ToUcs(entity.start), end_point |-> ToUcs(entity.end),
     start_point_wcs |-> entity.start, end_point_wcs |-> entity.end,
     radius |-> 0, direction |-> NoDirection,
     center |-> None, center_wcs |-> None]

\* lines 280-322: the records an ARC can give (one, but for a value that
\* falls on a half when rounded to 2 decimals)
arc_records(entity) ==
    LET cx == entity.center[1]
        cy == entity.center[2]
        r == entity.radius
        point(a) == RoundedValues(Fraction(cx * 10 + r * Cos(a), 10))
                    \X RoundedValues(Fraction(cy * 10 + r * Sin(a), 10))
    IN {[sl_no |-> 0, name |-> <<"", 0>>,
         start_point |-> ToUcs(s), end_point |-> ToUcs(e),
         start_point_wcs |-> s, end_point_wcs |-> e,
         radius |-> rounded,
         direction |-> IF entity.end_angle > entity.start_angle
                       THEN "Clockwise" ELSE "Anti-clockwise",
         center |-> ToUcs(entity.center), center_wcs |-> entity.center] :
           s \in point(entity.start_angle), e \in point(entity.end_angle),
           rounded \in RoundedValues(Fraction(r, 10))}

ParseIdle ==
    /\ dxf_msp = <<>>
    /\ dxf_next = 0

\* lines 236-239
ParseInit ==
    /\ dxf_msp \in UNION {[1..n -> DxfEntities] : n \in 0..MaxDxfEntities}
    /\ dxf_next = 1

\* lines 252-278
BuildLineRecord ==
    /\ dxf_next \in 1..Len(dxf_msp)
    /\ dxf_msp[dxf_next].type = "LINE"
    /\ results' = Append(results, line_record(dxf_msp[dxf_next]))
    /\ dxf_next' = dxf_next + 1
    /\ UNCHANGED <<remaining, arranged, cpc, dxf_msp>>
    /\ UNCHANGED <<polyVars, offsetVars, solveVars, intersectVars, tripVars, windingVars, arcVars, gcodeVars, previewVars, cornerVars>>

\* lines 280-322
BuildArcRecord ==
    /\ dxf_next \in 1..Len(dxf_msp)
    /\ dxf_msp[dxf_next].type = "ARC"
    /\ \E record \in arc_records(dxf_msp[dxf_next]) :
          results' = Append(results, record)
    /\ dxf_next' = dxf_next + 1
    /\ UNCHANGED <<remaining, arranged, cpc, dxf_msp>>
    /\ UNCHANGED <<polyVars, offsetVars, solveVars, intersectVars, tripVars, windingVars, arcVars, gcodeVars, previewVars, cornerVars>>

\* lines 251-280: an entity that is neither a LINE nor an ARC
SkipOtherEntity ==
    /\ dxf_next \in 1..Len(dxf_msp)
    /\ dxf_msp[dxf_next].type \notin {"LINE", "ARC"}
    /\ dxf_next' = dxf_next + 1
    /\ UNCHANGED <<chainVars, dxf_msp, previewVars, cornerVars>>
    /\ UNCHANGED <<polyVars, offsetVars, solveVars, intersectVars, tripVars, windingVars, arcVars, gcodeVars, previewVars, cornerVars>>

\* line 324, then lines 333-337: the list is handed to the chainer
ReturnResults ==
    /\ dxf_next = Len(dxf_msp) + 1
    /\ cpc = "idle"
    /\ cpc' = "call"
    /\ UNCHANGED <<results, remaining, arranged, parseVars>>
    /\ UNCHANGED <<polyVars, offsetVars, solveVars, intersectVars, tripVars, windingVars, arcVars, gcodeVars, previewVars, cornerVars>>

ParseNext ==
    \/ BuildLineRecord
    \/ BuildArcRecord
    \/ SkipOtherEntity
    \/ ReturnResults
    \/ ReturnEmpty
    \/ PlaceSeed
    \/ AppendConnected
    \/ StartNewChain
    \/ AssignNames

----------------------------------------------------------------------------
(* gui_final.py preview_offset: each offset polygon is handed to the
   intersector on its own *)

\* offset edges: two sides of a square, a parallel to the first, a
\* slanted one whose crossings do not fall on 2 decimals, and the offset by
\* 0.05 of the segment from (0, 0) to (0.3, 0.1) travelled either way
PreviewEdges ==
    {<<<<0, 0>>, <<Scale, 0>>>>, <<<<Scale, 0>>, <<Scale, Scale>>>>,
     <<<<0, 50>>, <<Scale, 50>>>>,
     <<<<0, 0>>, <<3, 1>>>>,
     <<<<32, 5>>, <<2, -5>>>>, <<<<-2, 5>>, <<28, 15>>>>}

\* the lists of at most n edges
RECURSIVE EdgeLists(_)
EdgeLists(n) ==
    IF n = 0 THEN {<<>>}
    ELSE LET shorter == EdgeLists(n - 1)
         IN shorter \cup {Append(l, e) : l \in {k \in shorter : Len(k) = n - 1},
                                         e \in PreviewEdges}

\* the lists of offset polygons with at most n edges in all; a reconstructed
\* polygon has at least 2 edges, and so has its offset polygon
RECURSIVE PolygonLists(_)
PolygonLists(n) ==
    {<<>>} \cup
    UNION {{<<first>> \o rest : rest \in PolygonLists(n - Len(first))} :
             first \in {l \in EdgeLists(n) : Len(l) >= 2}}

\* poly.py lines 191-208: the pairs of every polygon of the list, in order
RECURSIVE equations_of_polygons(_)
equations_of_polygons(offset_polygons) ==
    IF offset_polygons = <<>> THEN <<>>
    ELSE create_equations_of_adjacent_lines(Head(offset_polygons))
         \o equations_of_polygons(Tail(offset_polygons))

\* lines 216-219 in floating point: the products A1 * B2 and A2 * B1 of
\* coefficients that are differences of 2-decimal values are rounded, and
\* the denominator of two parallel lines is certain to be 0 only when both
\* products are 0, or all four coefficients are whole numbers (which, for
\* PreviewEdges, are differences of whole numbers), or the two equations
\* are those of one and the same edge
DenominatorIsExact(eq1, eq2) ==
    \/ (eq1[1] = 0 \/ eq2[2] = 0) /\ (eq2[1] = 0 \/ eq1[2] = 0)
    \/ eq1 = eq2
    \/ \A c \in {eq1[1], eq1[2], eq2[1], eq2[2]} : c % Scale = 0

\* lines 223-224 with a denominator that should be 0 and is a rounding
\* error instead: a point some 10^14 units away, or, when the numerators
\* are rounding errors too (both edges on one line), a point near the edges
SpuriousPoints(eq1, eq2) ==
    {<<sx * 10000 * Scale, sy * 10000 * Scale>> : sx \in {-1, 1}, sy \in {-1, 1}}
    \cup {p \in UNION {{e[1], e[2]} : e \in PreviewEdges} :
            /\ eq1[1] * p[1] + eq1[2] * p[2] = eq1[3]
            /\ eq2[1] * p[1] + eq2[2] * p[2] = eq2[3]}

\* lines 231-235 for one pair: the lists of points (none or one) the pair
\* can add, one for each way the floats are rounded
PointsOfPair(eq1, eq2) ==
    LET intersection == solve_line_equations(eq1, eq2)
    IN IF intersection # None
       THEN {<< <<x, y>> >> : x \in RoundedValues(intersection[1]),
                              y \in RoundedValues(intersection[2])}
       ELSE IF DenominatorIsExact(eq1, eq2)
       THEN {<<>>}
       ELSE {<<>>} \cup {<<p>> : p \in SpuriousPoints(eq1, eq2)}

\* poly.py lines 228-236: the lists of points the loop can return
RECURSIVE find_intersection_points_of_adjacent_lines(_)
find_intersection_points_of_adjacent_lines(equations_sets) ==
    IF equations_sets = <<>> THEN {<<>>}
    ELSE {first \o rest :
            first \in PointsOfPair(Head(equations_sets)[1], Head(equations_sets)[2]),
            rest \in find_intersection_points_of_adjacent_lines(Tail(equations_sets))}

PreviewIdle ==
    /\ preview_polygons = <<>>
    /\ equations_sets_per_polygon = <<>>
    /\ intersection_points_per_polygon = <<>>
    /\ pvpc = "idle"

PreviewInit ==
    /\ preview_polygons \in PolygonLists(MaxPreviewEdges)
    /\ equations_sets_per_polygon = <<>>
    /\ intersection_points_per_polygon = <<>>
    /\ pvpc = "loop"

\* gui_final.py lines 320-326: one iteration of the loop over the polygons
PreviewPolygon ==
    /\ pvpc = "loop"
    /\ Len(intersection_points_per_polygon) < Len(preview_polygons)
    /\ LET polygon == preview_polygons[Len(intersection_points_per_polygon) + 1]
           equations_sets == equations_of_polygons(<<polygon>>)
       IN /\ equations_sets_per_polygon' = Append(equations_sets_per_polygon, equations_sets)
          /\ \E points \in find_intersection_points_of_adjacent_lines(equations_sets) :
                intersection_points_per_polygon' =
                    Append(intersection_points_per_polygon, points)
    /\ UNCHANGED <<preview_polygons, pvpc>>
    /\ UNCHANGED <<chainVars, polyVars, offsetVars, solveVars, intersectVars, tripVars, windingVars, arcVars, gcodeVars, parseVars, cornerVars>>

\* gui_final.py lines 319-320: no polygon left
PreviewDone ==
    /\ pvpc = "loop"
    /\ Len(intersection_points_per_polygon) = Len(preview_polygons)
    /\ pvpc' = "done"
    /\ UNCHANGED <<preview_polygons, equations_sets_per_polygon, intersection_points_per_polygon>>
    /\ UNCHANGED <<chainVars, polyVars, offsetVars, solveVars, intersectVars, tripVars, windingVars, arcVars, gcodeVars, parseVars, cornerVars>>

PreviewNext ==
    \/ PreviewPolygon
    \/ PreviewDone

----------------------------------------------------------------------------
(* poly.py calculate_line_equation composed with solve_line_equations *)

\* end points of the segments: whole numbers and other 2-decimal values
CornerPoints == {<<0, 0>>, <<Scale, 0>>, <<Scale, Scale>>, <<3, 4>>, <<10, 20>>}

CornerSegments == {seg \in CornerPoints \X CornerPoints : seg[1] # seg[2]}

\* lines 223-224 in floating point: the sign of the rounding error of the
\* quotient n / d the code returns (0 when it is exact). The quotient is
\* certain to be exact only when the coordinates it is computed from are
\* whole numbers and it is a whole number itself.
RoundingErrors(f, segments) ==
    IF /\ \A k \in 1..Len(segments) : \A e \in 1..2 : \A c \in 1..2 :
             segments[k][e][c] % Scale = 0
       /\ f[1] % (Abs(f[2]) * Scale) = 0
    THEN {0}
    ELSE {-1, 0, 1}

\* lines 210-226 on the equations of two segments: None (nothing found),
\* or the point as exact quotients with the sign of the rounding error of
\* each coordinate
corner_of(line1, line2) ==
    LET intersection == solve_line_equations(calculate_line_equation(line1),
                                             calculate_line_equation(line2))
    IN IF intersection = None
       THEN {[found |-> FALSE]}
       ELSE {[found |-> TRUE, point |-> intersection, error |-> <<ex, ey>>] :
               ex \in RoundingErrors(intersection[1], <<line1, line2>>),
               ey \in RoundingErrors(intersection[2], <<line1, line2>>)}

CornerIdle ==
    /\ corner_call = <<>>
    /\ corner_result = <<>>

CornerInit ==
    /\ corner_call \in CornerSegments \X CornerSegments
    /\ corner_result = <<>>

\* solve_line_equations(calculate_line_equation(line1), calculate_line_equation(line2))
CallCorner ==
    /\ corner_call # <<>>
    /\ corner_result = <<>>
    /\ \E outcome \in corner_of(corner_call[1], corner_call[2]) :
          corner_result' = <<outcome>>
    /\ UNCHANGED corner_call
    /\ UNCHANGED <<chainVars, polyVars, offsetVars, solveVars, intersectVars, tripVars, windingVars, arcVars, gcodeVars, parseVars, previewVars>>

CornerNext == CallCorner

----------------------------------------------------------------------------
(* The specifications: one component runs, the others stay idle *)

\* the state in which only this component has been called
InitChain ==
    ChainInit /\ PolyIdle /\ OffsetIdle /\ SolveIdle /\ IntersectIdle /\ TripIdle /\ WindingIdle /\ ArcIdle /\ GcodeIdle /\ ParseIdle /\ PreviewIdle /\ CornerIdle

SpecChain ==
    InitChain
    /\ [][ChainNext]_vars

\* the call runs to its end: Python executes the loop without pausing, so
\* a step that can be taken is taken
SpecChainLive ==
    InitChain
    /\ [][ChainNext]_vars
    /\ WF_vars(ChainNext)

\* the state in which only this component has been called
InitPoly ==
    PolyInit /\ ChainIdle /\ OffsetIdle /\ SolveIdle /\ IntersectIdle /\ TripIdle /\ WindingIdle /\ ArcIdle /\ GcodeIdle /\ ParseIdle /\ PreviewIdle /\ CornerIdle

SpecPoly ==
    InitPoly
    /\ [][PolyNext]_vars

\* the state in which only this component has been called
InitOffset ==
    OffsetInit /\ ChainIdle /\ PolyIdle /\ SolveIdle /\ IntersectIdle /\ TripIdle /\ WindingIdle /\ ArcIdle /\ GcodeIdle /\ ParseIdle /\ PreviewIdle /\ CornerIdle

SpecOffset ==
    InitOffset
    /\ [][OffsetNext]_vars

\* the state in which only this component has been called
InitSolve ==
    SolveInit /\ ChainIdle /\ PolyIdle /\ OffsetIdle /\ IntersectIdle /\ TripIdle /\ WindingIdle /\ ArcIdle /\ GcodeIdle /\ ParseIdle /\ PreviewIdle /\ CornerIdle

SpecSolve ==
    InitSolve
    /\ [][SolveNext]_vars

\* the state in which only this component has been called
InitIntersect ==
    IntersectInit /\ ChainIdle /\ PolyIdle /\ OffsetIdle /\ SolveIdle /\ TripIdle /\ WindingIdle /\ ArcIdle /\ GcodeIdle /\ ParseIdle /\ PreviewIdle /\ CornerIdle

SpecIntersect ==
    InitIntersect
    /\ [][IntersectNext]_vars

\* the state in which only this component has been called
InitTrip ==
    TripInit /\ ChainIdle /\ PolyIdle /\ OffsetIdle /\ SolveIdle /\ IntersectIdle /\ WindingIdle /\ ArcIdle /\ GcodeIdle /\ ParseIdle /\ PreviewIdle /\ CornerIdle

SpecTrip ==
    InitTrip
    /\ [][TripNext]_vars

\* the state in which only this component has been called
InitWinding ==
    WindingInit /\ ChainIdle /\ PolyIdle /\ OffsetIdle /\ SolveIdle /\ IntersectIdle /\ TripIdle /\ ArcIdle /\ GcodeIdle /\ ParseIdle /\ PreviewIdle /\ CornerIdle

SpecWinding ==
    InitWinding
    /\ [][WindingNext]_vars

\* the state in which only this component has been called
InitArc ==
    ArcInit /\ ChainIdle /\ PolyIdle /\ OffsetIdle /\ SolveIdle /\ IntersectIdle /\ TripIdle /\ WindingIdle /\ GcodeIdle /\ ParseIdle /\ PreviewIdle /\ CornerIdle

SpecArc ==
    InitArc
    /\ [][ArcNext]_vars

\* the state in which only this component has been called
InitGcode ==
    GcodeInit /\ ChainIdle /\ PolyIdle /\ OffsetIdle /\ SolveIdle /\ IntersectIdle /\ TripIdle /\ WindingIdle /\ ArcIdle /\ ParseIdle /\ PreviewIdle /\ CornerIdle

SpecGcode ==
    InitGcode
    /\ [][GcodeNext]_vars

\* the state in which a drawing is about to be parsed and chained
InitParse ==
    ParseInit /\ ChainIdle /\ PolyIdle /\ OffsetIdle /\ SolveIdle /\ IntersectIdle /\ TripIdle /\ WindingIdle /\ ArcIdle /\ GcodeIdle /\ PreviewIdle /\ CornerIdle

SpecParse ==
    InitParse
    /\ [][ParseNext]_vars

\* the state in which the offset polygons are about to be previewed
InitPreview ==
    PreviewInit /\ ChainIdle /\ PolyIdle /\ OffsetIdle /\ SolveIdle /\ IntersectIdle /\ TripIdle /\ WindingIdle /\ ArcIdle /\ GcodeIdle /\ ParseIdle /\ CornerIdle

SpecPreview ==
    InitPreview
    /\ [][PreviewNext]_vars

\* the state in which the corner of two segments is about to be computed
InitCorner ==
    CornerInit /\ ChainIdle /\ PolyIdle /\ OffsetIdle /\ SolveIdle /\ IntersectIdle /\ TripIdle /\ WindingIdle /\ ArcIdle /\ GcodeIdle /\ ParseIdle /\ PreviewIdle

SpecCorner ==
    InitCorner
    /\ [][CornerNext]_vars

----------------------------------------------------------------------------
(* Vocabulary of the chainer claims *)

\* the geometry of a record: everything but the serial number and the name
Geometry(e) ==
    <<e.start_point, e.end_point, e.start_point_wcs, e.end_point_wcs,
      e.radius, e.direction, e.center, e.center_wcs>>

OppositeDirection(d) ==
    IF d = "Clockwise" THEN "Anti-clockwise"
    ELSE IF d = "Anti-clockwise" THEN "Clockwise" ELSE d

\* a is b travelled the other way
IsReversalOf(a, b) ==
    /\ a.start_point = b.end_point
    /\ a.end_point = b.start_point
    /\ a.start_point_wcs = b.end_point_wcs
    /\ a.end_point_wcs = b.start_point_wcs
    /\ a.radius = b.radius
    /\ a.center = b.center
    /\ a.center_wcs = b.center_wcs
    /\ a.direction = OppositeDirection(b.direction)

Bijections(n) ==
    {f \in [1..n -> 1..n] : \A i, j \in 1..n : f[i] = f[j] => i = j}

IsPlacedFrom(a, b) == Geometry(a) = Geometry(b) \/ IsReversalOf(a, b)

\* A path is given by the (start, end) pairs of its pieces.
\* number of piece ends that lie on point v
Degree(pairs, v) ==
    Cardinality({i \in 1..Len(pairs) : pairs[i][1] = v})
    + Cardinality({i \in 1..Len(pairs) : pairs[i][2] = v})

EndPoints(pairs) ==
    {pairs[i][1] : i \in 1..Len(pairs)} \cup {pairs[i][2] : i \in 1..Len(pairs)}

RECURSIVE ReachedFrom(_, _)
ReachedFrom(pairs, seen) ==
    LET more == seen
                \cup {pairs[i][2] : i \in {k \in 1..Len(pairs) : pairs[k][1] \in seen}}
                \cup {pairs[i][1] : i \in {k \in 1..Len(pairs) : pairs[k][2] \in seen}}
    IN IF more = seen THEN seen ELSE ReachedFrom(pairs, more)

IsConnected(pairs) ==
    pairs # <<>> /\ ReachedFrom(pairs, {pairs[1][1]}) = EndPoints(pairs)

\* one simple closed loop: connected, and exactly two piece ends meet at
\* every point
IsSimpleClosedLoop(pairs) ==
    /\ IsConnected(pairs)
    /\ \A v \in EndPoints(pairs) : Degree(pairs, v) = 2

\* one simple open path: connected, two loose ends, two piece ends at every
\* other point
IsSimpleOpenPath(pairs) ==
    /\ IsConnected(pairs)
    /\ Cardinality({v \in EndPoints(pairs) : Degree(pairs, v) = 1}) = 2
    /\ \A v \in EndPoints(pairs) : Degree(pairs, v) \in {1, 2}

EntityEnds(ents) ==
    [i \in 1..Len(ents) |-> <<ents[i].start_point, ents[i].end_point>>]

Placed(i) == arranged[i].entity

LinesPlaced == {i \in 1..Len(arranged) : Placed(i).radius = 0}

ArcsPlaced == {i \in 1..Len(arranged) : Placed(i).radius # 0}

----------------------------------------------------------------------------
(* C1: the sequence arrange_entities_systematically returns has the length *)
(* of its input and there is a one-to-one correspondence between output    *)
(* positions and input entities under which every output entity is its     *)
(* input entity verbatim or reversed: nothing missing, doubled or foreign.  *)
C1_EveryEntityPlacedOnce ==
    cpc = "done" =>
        /\ Len(arranged) = Len(results)
        /\ \E f \in Bijections(Len(results)) :
              \A i \in 1..Len(arranged) : IsPlacedFrom(Placed(i), results[f[i]])

C1_Witness ==
    /\ cpc = "done"
    /\ Len(results) = 3
    /\ \E i \in 1..3 : arranged[i].ref = 0
    /\ \E i \in 1..3 : arranged[i].ref # 0 /\ arranged[i].ref # i

\* C2: for an input that is one simple closed loop of N entities (any list
\* order, any of them stored reversed), the output has N entities, the end
\* of each is the start of the next within tolerance, and the end of the
\* last is the start of the first.
C2_ClosedLoopIsChained ==
    (cpc = "done" /\ IsSimpleClosedLoop(EntityEnds(results))) =>
        /\ Len(arranged) = Len(results)
        /\ \A i \in 1..(Len(arranged) - 1) :
              are_points_equal(Placed(i).end_point, Placed(i + 1).start_point)
        /\ are_points_equal(Placed(Len(arranged)).end_point, Placed(1).start_point)

C2_Witness ==
    /\ cpc = "done"
    /\ IsSimpleClosedLoop(EntityEnds(results))
    /\ Len(results) = 3
    /\ LinesPlaced # {} /\ ArcsPlaced # {}
    /\ \E i \in 1..3 : arranged[i].ref = 0
    /\ arranged[2].ref = 1

\* C3: in the output, sl_no of position i is i; radius 0 is named Line{k},
\* anything else Arc{k}; k counts from 1 per kind in traversal order, so the
\* Line names are Line1..Line{L} and the Arc names Arc1..Arc{A}, L + A = N.
C3_SerialsAndNames ==
    cpc = "done" =>
        /\ \A i \in 1..Len(arranged) : Placed(i).sl_no = i
        /\ \A i \in LinesPlaced :
              Placed(i).name = <<"Line", Cardinality({j \in LinesPlaced : j <= i})>>
        /\ \A i \in ArcsPlaced :
              Placed(i).name = <<"Arc", Cardinality({j \in ArcsPlaced : j <= i})>>
        /\ {Placed(i).name : i \in LinesPlaced}
              = {<<"Line", k>> : k \in 1..Cardinality(LinesPlaced)}
        /\ {Placed(i).name : i \in ArcsPlaced}
              = {<<"Arc", k>> : k \in 1..Cardinality(ArcsPlaced)}
        /\ Cardinality(LinesPlaced) + Cardinality(ArcsPlaced) = Len(arranged)

C3_Witness ==
    /\ cpc = "done"
    /\ Len(arranged) = 3
    /\ Placed(1).name = <<"Line", 1>>
    /\ Placed(2).name = <<"Arc", 1>>
    /\ Placed(3).name = <<"Line", 2>>

----------------------------------------------------------------------------
(* Vocabulary of the polygon reconstructor claims *)

\* group_lines_into_polygon has returned
Grouped == ppc \in {"offset", "check", "returned"}

Flip(seg) == <<seg[2], seg[1]>>

\* a segment without its orientation
Unoriented(seg) == {seg[1], seg[2]}

NoRepeats(l) == \A i, j \in 1..Len(l) : l[i] = l[j] => i = j

\* how many segments of the chains in polys, plus the chain chain, are
\* the undirected segment u
RECURSIVE UsesIn(_, _)
UsesIn(polys, u) ==
    IF polys = <<>> THEN 0
    ELSE Cardinality({j \in 1..Len(Head(polys)) : Unoriented(Head(polys)[j]) = u})
         + UsesIn(Tail(polys), u)

\* how many stored segments of set(lines) are the undirected segment u
Supply(u) == Cardinality({seg \in SeqRange(lines) : Unoriented(seg) = u})

RECURSIVE TotalLen(_)
TotalLen(polys) ==
    IF polys = <<>> THEN 0 ELSE Len(Head(polys)) + TotalLen(Tail(polys))

AllUndirected == {Unoriented(seg) : seg \in Segments}

HasZeroLength(polys) ==
    \E i \in 1..Len(polys) : \E j \in 1..Len(polys[i]) :
        polys[i][j][1] = polys[i][j][2]

----------------------------------------------------------------------------
(* C4 as stated: N segments forming one closed loop, in any order and with *)
(* any of them stored end-to-start, give exactly one polygon of N segments.*)
(* Fails for a loop of two segments stored as the same pair twice (set()   *)
(* keeps one of them) and for a lone zero-length segment.                  *)
C4_AnyLoopIsOnePolygon ==
    (Grouped /\ IsSimpleClosedLoop(lines)) =>
        (Len(polygons) = 1 /\ Len(polygons[1]) = Len(lines))

\* C4 amended: N >= 2 segments forming one simple closed loop, no stored
\* pair repeated, give exactly one polygon of N segments whichever segment
\* is popped as the seed and whichever matching segment is scanned first.
C4_DistinctLoopIsOnePolygon ==
    (Grouped /\ IsSimpleClosedLoop(lines) /\ Len(lines) >= 2 /\ NoRepeats(lines)) =>
        (Len(polygons) = 1 /\ Len(polygons[1]) = Len(lines))

C4_Witness ==
    /\ Grouped
    /\ IsSimpleClosedLoop(lines)
    /\ NoRepeats(lines)
    /\ Len(lines) = 4
    /\ Len(polygons) = 1
    /\ Len(polygons[1]) = 4
    /\ \E j \in 1..4 : polygons[1][j] \notin SeqRange(lines)

\* C5 as stated: every input segment appears, as itself or flipped, in
\* exactly one returned polygon. Fails for every segment of a chain that
\* does not close.
C5_EverySegmentInOnePolygon ==
    Grouped =>
        \A seg \in SeqRange(lines) :
            Cardinality({i \in 1..Len(polygons) :
                           \E j \in 1..Len(polygons[i]) :
                              polygons[i][j] \in {seg, Flip(seg)}}) = 1

\* C5 amended: every segment of the returned polygons (and of the chain
\* being built) is an input segment or the flip of one, and no input
\* segment is used more than once: each appears in at most one polygon.
C5_EverySegmentUsedAtMostOnce ==
    \A u \in AllUndirected :
        UsesIn(Append(polygons, current_polygon), u) <= Supply(u)

C5_Witness ==
    /\ Grouped
    /\ Len(lines) = 4
    /\ NoRepeats(lines)
    /\ Len(polygons) = 1
    /\ Len(polygons[1]) = 3
    /\ \E j \in 1..3 : polygons[1][j] \notin SeqRange(lines)

\* C6: when the chain under construction can be extended no further and
\* does not close (its last end differs from its first start), the step
\* that ends it adds no polygon and raises nothing: the run goes on with the
\* next seed, and the segments of the chain stay consumed (they are not put
\* back among the unvisited ones, which are at most the input minus the
\* chain and the polygons kept so far).
C6_OpenChainIsDropped ==
    [][(/\ ppc = "extend"
        /\ ppc' # "extend"
        /\ current_polygon[Len(current_polygon)][2] # current_polygon[1][1])
       => (/\ polygons' = polygons
           /\ ppc' = "pop"
           /\ returned' = Pending
           /\ unvisited_lines' = unvisited_lines
           /\ Cardinality(unvisited_lines')
                 <= Cardinality(SeqRange(lines)) - Len(current_polygon)
                    - TotalLen(polygons))]_vars

C6_Witness ==
    /\ Grouped
    /\ IsSimpleOpenPath(lines)
    /\ Len(lines) = 3
    /\ polygons = <<>>
    /\ unvisited_lines = {}

\* C10 as stated: a zero-length segment offered for offsetting raises an
\* error that reaches the caller of the offset run. In the code the error
\* raised by calculate_offset is caught and three Nones are returned.
C10_ZeroLengthErrorReachesCaller ==
    (ppc = "returned" /\ HasZeroLength(polygons)) => returned.raised

----------------------------------------------------------------------------
(* Vocabulary of the solver and intersector claims *)

Determinant(eq1, eq2) == eq1[1] * eq2[2] - eq2[1] * eq1[2]

\* the point (x, y) given as two fractions lies on A x + B y + C = 0
\* (both fractions have the same denominator)
OnImplicitLine(eq, point) ==
    eq[1] * point[1][1] + eq[2] * point[2][1] + eq[3] * point[1][2] = 0

SameFraction(f, g) == f[1] * g[2] = g[1] * f[2]

\* C7 as stated: for equations in the form A x + B y + C = 0 with a
\* non-zero determinant, solve_line_equations returns the point lying on
\* both lines; (1, 0, -5) and (0, 1, -5) give (5, 5). The code returns the
\* point reflected through the origin, (-5, -5) for the example.
C7_SolutionLiesOnBothLines ==
    (solve_result # Pending
       /\ Determinant(solve_call[1], solve_call[2]) # 0) =>
        /\ solve_result.value # None
        /\ OnImplicitLine(solve_call[1], solve_result.value)
        /\ OnImplicitLine(solve_call[2], solve_result.value)
        /\ (solve_call = <<(<<1, 0, -5>>), (<<0, 1, -5>>)>>) =>
              /\ SameFraction(solve_result.value[1], <<5, 1>>)
              /\ SameFraction(solve_result.value[2], <<5, 1>>)

PairDeterminant(i) ==
    Determinant(adjacent_equations_sets[i][1], adjacent_equations_sets[i][2])

----------------------------------------------------------------------------
(* Vocabulary of the offset claims *)

\* v is q / (DistanceUnit * sqrt(S)) rounded to a nearest integer
IsNearest(v, q, S) ==
    /\ LeqRoot(2 * q, 2 * v + 1, S * DistanceUnit * DistanceUnit)
    /\ LeqRoot(-(2 * q), -(2 * v - 1), S * DistanceUnit * DistanceUnit)

\* what C9 says of a call calculate_offset((p1, p2), d) that gave result
IsPerpendicularTranslation(p1, p2, d, result) ==
    LET dx == p2[1] - p1[1]
        dy == p2[2] - p1[2]
        S == dx * dx + dy * dy
        q1 == result.value[1]
        q2 == result.value[2]
        vx == q1[1] - p1[1]
        vy == q1[2] - p1[2]
        \* length times the signed distance of the offset line, left positive,
        \* in hundredths
        w == dx * vy - dy * vx
    IN /\ ~result.raised
       \* both end points moved by the same vector, the rounded d (-dy, dx) / length
       /\ q2[1] - p2[1] = vx
       /\ q2[2] - p2[2] = vy
       /\ IsNearest(vx, (-dy) * d, S)
       /\ IsNearest(vy, dx * d, S)
       \* same direction and length
       /\ q2[1] - q1[1] = dx
       /\ q2[2] - q1[2] = dy
       \* at distance |d|, to within the rounding step 0.01
       /\ LeqRoot(w * DistanceUnit, d + DistanceUnit, S)
       /\ LeqRoot(-(w * DistanceUnit), -(d - DistanceUnit), S)
       \* on the left for d > 0
       /\ d > 0 => w > 0
       /\ d = 0 => result.value = <<p1, p2>>

\* C9 as stated: for every segment of non-zero length and every distance d,
\* calculate_offset moves both end points by the same vector
\* d (-dy, dx) / length rounded to 2 decimals, so that the offset segment
\* has the direction and length of the original, lies at distance |d| from
\* it, on the left of p1 -> p2 for d > 0, and is the original for d = 0.
\* Fails for distances with a third decimal: the end points are rounded one
\* by one, and a coordinate that falls on a half may go up at one end and
\* down at the other; a distance d > 0 below 0.005 moves nothing.
C9_EveryDistanceTranslates ==
    (offset_result # Pending /\ offset_call[1][1] # offset_call[1][2]) =>
        IsPerpendicularTranslation(offset_call[1][1], offset_call[1][2],
                                   offset_call[2], offset_result)

\* C9 amended: the same, for every distance d that is a multiple of 0.01
\* (the distance to within 0.01, the rounding step).
C9_TwoDecimalDistanceTranslates ==
    (/\ offset_result # Pending
     /\ offset_call[1][1] # offset_call[1][2]
     /\ offset_call[2] % DistanceUnit = 0) =>
        IsPerpendicularTranslation(offset_call[1][1], offset_call[1][2],
                                   offset_call[2], offset_result)

C9_Witness ==
    /\ offset_result # Pending
    /\ offset_call = <<(<<(<<0, 0>>), (<<40, 30>>)>>), 40>>
    /\ offset_result.value = <<(<<-2, 3>>), (<<38, 33>>)>>

\* the largest difference, in hundredths, between a coordinate of segment a
\* and the same coordinate of segment b
Deviation(a, b) ==
    Max(Max(Abs(a[1][1] - b[1][1]), Abs(a[1][2] - b[1][2])),
        Max(Abs(a[2][1] - b[2][1]), Abs(a[2][2] - b[2][2])))

\* one unit of the second decimal
RoundingTolerance == 1

\* C11 as stated: for every segment of non-zero length and every distance d,
\* calculate_offset by d followed by calculate_offset by -d gives back the
\* original end points, each coordinate to within the rounding step 0.01.
\* Fails for distances with a third decimal: the first call may round the
\* two ends differently, which turns the segment, and the way back then goes
\* along another perpendicular.
C11_EveryRoundTripReturns ==
    trip_back # Pending =>
        /\ ~trip_back.raised
        /\ Deviation(trip_back.value, trip_call[1]) <= RoundingTolerance

\* C11 amended: for every segment of non-zero length and every distance d
\* that is a multiple of 0.01, calculate_offset by d followed by
\* calculate_offset by -d gives back exactly the original end points.
C11_TwoDecimalRoundTripReturns ==
    (trip_back # Pending /\ trip_call[2] % DistanceUnit = 0) =>
        /\ ~trip_back.raised
        /\ trip_back.value = trip_call[1]

C11_Witness ==
    /\ trip_back # Pending
    /\ trip_call = <<(<<(<<0, 0>>), (<<3, 4>>)>>), 50>>
    /\ trip_there.value = <<(<<-4, 3>>), (<<-1, 7>>)>>
    /\ trip_back.value = <<(<<0, 0>>), (<<3, 4>>)>>

\* twice the signed area of the closed loop through pts (shoelace sum):
\* positive counter-clockwise, negative clockwise
RECURSIVE Shoelace(_, _)
Shoelace(pts, i) ==
    IF i > Len(pts)
    THEN 0
    ELSE LET p == pts[i]
             q == pts[(i % Len(pts)) + 1]
         IN (p[1] * q[2] - q[1] * p[2]) + Shoelace(pts, i + 1)

Sign(n) == IF n > 0 THEN 1 ELSE IF n < 0 THEN -1 ELSE 0

\* the corners of a polygon given by its edges
Corners(polygon) == [i \in 1..Len(polygon) |-> polygon[i][1]]

\* C12: for every closed polygon with a winding sense and every non-zero
\* offset distance, the loop of the intersection points of cyclically
\* adjacent offset edges winds the same way as the polygon.
C12_WindingIsPreserved ==
    (/\ winding_polygon # <<>>
     /\ next_pair > Len(offset_edges)
     /\ Shoelace(Corners(winding_polygon), 1) # 0) =>
        Sign(Shoelace(intersection_points, 1))
            = Sign(Shoelace(Corners(winding_polygon), 1))

\* the positions of msp whose entity is a circle or an arc that keeps a
\* positive radius
Surviving ==
    {i \in 1..Len(msp) :
        /\ msp[i].type \in {"CIRCLE", "ARC"}
        /\ msp[i].radius + arc_distance > 0}

\* C13: the arc/circle stage returns one entity for each CIRCLE or ARC with
\* r + d > 0 and none for the others (r + d <= 0 drops the entity without an
\* error); the entities come in input order, each with radius r + d and the
\* type, center and angles of its source.
C13_OffsetIffPositiveRadius ==
    arc_returned # Pending =>
        /\ ~arc_returned.raised
        /\ Len(arc_returned.value) = Cardinality(Surviving)
        /\ \E src \in [1..Len(arc_returned.value) -> Surviving] :
              /\ \A i, j \in 1..Len(arc_returned.value) : i < j => src[i] < src[j]
              /\ \A i \in 1..Len(arc_returned.value) :
                    LET out == arc_returned.value[i]
                        source == msp[src[i]]
                    IN /\ out.type = source.type
                       /\ out.center = source.center
                       /\ out.radius = source.radius + arc_distance
                       /\ out.radius > 0
                       /\ source.type = "ARC" =>
                             /\ out.start_angle = source.start_angle
                             /\ out.end_angle = source.end_angle
                       /\ DOMAIN out = DOMAIN source

\* with d = -1 a circle of radius 1 vanishes (r + d = 0) and the arc and the
\* circle of radius 2 behind it come out with radius 1, in that order
C13_Witness ==
    /\ arc_returned # Pending
    /\ Len(msp) = 3
    /\ msp[1].type = "CIRCLE" /\ msp[1].radius = 1
    /\ msp[2].type = "ARC" /\ msp[2].radius = 2
    /\ msp[3].type = "CIRCLE" /\ msp[3].radius = 2
    /\ arc_distance = -1
    /\ Len(arc_returned.value) = 2
    /\ arc_returned.value[1].type = "ARC"
    /\ arc_returned.value[1].radius = 1

----------------------------------------------------------------------------
(* Vocabulary of the G-code claims *)

\* the letters of the numeric words of a program line
Letters(line) == {line.args[k][1] : k \in 1..Len(line.args)}

\* the value of the word with that letter
Word(line, letter) ==
    line.args[CHOOSE k \in 1..Len(line.args) : line.args[k][1] = letter][2]

\* the program lines between the preamble and the postamble
Body ==
    SubSeq(gcode, Len(Preamble(gc_config)) + 1, Len(gcode) - Len(Postamble))

\* a line that moves in the plane at the feed rate to point
IsCutTo(line, point) ==
    /\ line.code \in {"G01", "G02", "G03"}
    /\ {"X", "Y", "F"} \subseteq Letters(line)
    /\ "Z" \notin Letters(line)
    /\ Word(line, "X") = point[1]
    /\ Word(line, "Y") = point[2]
    /\ Word(line, "F") = gc_config.feed_rate

\* C14: between the preamble and the postamble the program has one motion
\* per entity, in chain order (G01 to the end point for radius 0, a circular
\* move otherwise), after a single rapid move to the first start point and a
\* single plunge; nothing is emitted between later entities, and an empty
\* chain gives the preamble followed by the postamble.
C14_OneMotionPerEntity ==
    gpc = "done" =>
        LET N == Len(gc_results)
        IN /\ SubSeq(gcode, 1, Len(Preamble(gc_config))) = Preamble(gc_config)
           /\ SubSeq(gcode, Len(gcode) - 1, Len(gcode)) = Postamble
           /\ N = 0 => Body = <<>>
           /\ N > 0 =>
                /\ Len(Body) = N + 2
                /\ Body[1].code = "G00"
                /\ Word(Body[1], "X") = gc_results[1].start_point[1]
                /\ Word(Body[1], "Y") = gc_results[1].start_point[2]
                /\ Body[2].code = "G01"
                /\ Letters(Body[2]) = {"Z", "F"}
                /\ Word(Body[2], "Z") = gc_config.z_cut
                /\ \A k \in 1..N :
                      /\ IsCutTo(Body[k + 2], gc_results[k].end_point)
                      /\ (Body[k + 2].code = "G01") <=> (gc_results[k].radius = 0)

\* two entities that do not touch: the second motion follows the first directly
C14_Witness ==
    /\ gpc = "done"
    /\ Len(gc_results) = 2
    /\ gc_results[1].radius = 0
    /\ gc_results[2].radius = 0
    /\ gc_results[2].start_point # gc_results[1].end_point
    /\ Len(gcode) = Len(Preamble(gc_config)) + 4 + Len(Postamble)

\* C15: every entity with radius > 0 is emitted as a circular move to its
\* end point with I, J = center - start_point (the start point it has in the
\* chain, reversed or not), G02 for Clockwise and G03 for Anti-clockwise.
C15_ArcMoveFromChainStart ==
    gpc = "done" =>
        \A k \in 1..Len(gc_results) :
            gc_results[k].radius > 0 =>
                LET line == Body[k + 2]
                    e == gc_results[k]
                IN /\ IsCutTo(line, e.end_point)
                   /\ Word(line, "I") = e.center[1] - e.start_point[1]
                   /\ Word(line, "J") = e.center[2] - e.start_point[2]
                   /\ e.direction = "Clockwise" => line.code = "G02"
                   /\ e.direction = "Anti-clockwise" => line.code = "G03"

\* the reversed copy of a clockwise arc from (0,0) to (1,0) about (0.5,0.5):
\* it runs from (1,0), anti-clockwise, and is emitted G03 with I = -0.5
C15_Witness ==
    /\ gpc = "done"
    /\ Len(gc_results) = 1
    /\ gc_results[1] = reversed_entity(ArcEntity(<<0, 0>>, <<Scale, 0>>, "Clockwise"))
    /\ Body[3].code = "G03"
    /\ Word(Body[3], "I") = -50
    /\ Word(Body[3], "J") = 50

\* C16: the program ends with the retract to the configured safe Z height
\* and the program end; the Z of that retract is the Z of the first rapid
\* move of the preamble.
C16_RetractToConfiguredSafeZ ==
    gpc = "done" =>
        /\ gcode[Len(gcode)].code = "M30"
        /\ gcode[Len(gcode) - 1].code = "G00 G40"
        /\ Word(gcode[Len(gcode) - 1], "Z") = gc_config.z_safe
        /\ Word(gcode[Len(gcode) - 1], "Z") = Word(gcode[2], "Z")

\* C17: for an input that is one connected open path (any list order, any
\* of the entities stored reversed), the output is one connected traversal:
\* the end of each output entity is the start of the next within tolerance.
C17_OpenPathIsOneTraversal ==
    (cpc = "done" /\ IsSimpleOpenPath(EntityEnds(results))) =>
        /\ Len(arranged) = Len(results)
        /\ \A i \in 1..(Len(arranged) - 1) :
              are_points_equal(Placed(i).end_point, Placed(i + 1).start_point)

\* the references not yet placed before a step of the chainer
Unplaced ==
    IF cpc = "call" THEN 1..Len(results) ELSE SeqRange(remaining)

\* the unplaced entities whose start point is the end point of the chain
StartMatches ==
    IF arranged = <<>>
    THEN {}
    ELSE {u \in Unplaced :
            are_points_equal(arranged[Len(arranged)].entity.end_point,
                             results[u].start_point)}

\* the unplaced entities whose end point is the end point of the chain
EndMatches ==
    IF arranged = <<>>
    THEN {}
    ELSE {u \in Unplaced :
            are_points_equal(arranged[Len(arranged)].entity.end_point,
                             results[u].end_point)}

\* a step of the chainer that places an entity
Places ==
    /\ cpc \in {"call", "loop"}
    /\ Len(arranged') = Len(arranged) + 1

\* C18: at every chaining step, if some unplaced entity starts at the end of
\* the chain, the entity placed is one of those, verbatim; an entity is
\* placed reversed only when no unplaced entity starts there.
C18_StartMatchGoesFirst ==
    [][(Places /\ StartMatches # {}) =>
          /\ arranged'[Len(arranged')].ref \in StartMatches
          /\ arranged'[Len(arranged')].entity
                = results[arranged'[Len(arranged')].ref]]_vars

\* C19: the first output entity, and the first entity of every sub-chain, is
\* the unplaced entity with the lexicographically smallest start point
\* (x, then y), the earliest in input order on a tie, placed un-reversed; a
\* sub-chain is started only when no unplaced entity matches the end of the
\* chain, and it is appended to the same output sequence.
C19_SeedIsLeftmostUnplaced ==
    [][Places =>
          LET placed == arranged'[Len(arranged')]
          IN /\ SubSeq(arranged', 1, Len(arranged)) = arranged
             /\ IF StartMatches \cup EndMatches = {}
                THEN /\ placed.ref \in Unplaced
                     /\ placed.entity = results[placed.ref]
                     /\ \A u \in Unplaced :
                           /\ ~KeyLess(results[u].start_point,
                                       results[placed.ref].start_point)
                           /\ results[u].start_point = results[placed.ref].start_point
                                 => placed.ref <= u
                ELSE are_points_equal(arranged[Len(arranged)].entity.end_point,
                                      placed.entity.start_point)]_vars

\* a second sub-chain was started with entity 2 although entity 3 starts at
\* the same point
C19_Witness ==
    /\ cpc = "done"
    /\ Len(results) = 3
    /\ arranged[1].ref = 1
    /\ arranged[2].ref = 2
    /\ results[2].start_point = results[3].start_point
    /\ ~are_points_equal(results[1].end_point, results[2].start_point)
    /\ ~are_points_equal(results[1].end_point, results[2].end_point)
    /\ ~are_points_equal(results[1].end_point, results[3].end_point)

IsDrawn(entity) == entity.type \in {"LINE", "ARC"}

\* the LINE and ARC entities of the drawing, in order: record k is built
\* from the k-th of them
Drawn == SelectSeq(dxf_msp, IsDrawn)

\* C20: in every record built from the drawing and every record of the
\* chainer's output, radius = 0 exactly when the entity is a Line, exactly
\* when direction and center are absent; no record built from an ARC has
\* radius 0, so no arc is named Line{k}.
C20_ZeroRadiusIffLine ==
    /\ \A k \in 1..Len(results) :
          /\ (results[k].radius = 0) <=> (Drawn[k].type = "LINE")
          /\ (results[k].radius = 0) <=>
                (results[k].direction = NoDirection /\ results[k].center = None)
    /\ \A i \in 1..Len(arranged) :
          /\ (Placed(i).radius = 0) <=>
                (Placed(i).direction = NoDirection /\ Placed(i).center = None)
          /\ Placed(i).name[1] = "Line" => Placed(i).direction = NoDirection

----------------------------------------------------------------------------
(* Which way the edges of a reconstructed polygon are moved *)

RECURSIVE SumOfCoordinate(_, _, _)
SumOfCoordinate(pts, c, i) ==
    IF i > Len(pts) THEN 0 ELSE pts[i][c] + SumOfCoordinate(pts, c, i + 1)

\* the way edge is displaced to moved, measured against the direction from
\* the edge to the middle of the polygon's corners: negative when the edge
\* moves away from the interior of a convex polygon, positive when it
\* moves into it
Inwardness(polygon, edge, moved) ==
    LET n == Len(polygon)
        pts == Corners(polygon)
    IN (moved[1][1] - edge[1][1]) * (SumOfCoordinate(pts, 1, 1) - n * edge[1][1])
       + (moved[1][2] - edge[1][2]) * (SumOfCoordinate(pts, 2, 1) - n * edge[1][2])

\* C21: for every polygon the reconstructor returned (with an interior),
\* offsetting by a positive distance moves every edge outward and by a
\* negative distance moves every edge inward, whichever way round the
\* polygon runs.
C21_PositiveDistanceMovesOutward ==
    (ppc \in {"check", "returned"} /\ extracted.value.offset_polygons # None) =>
        \A i \in 1..Len(polygons) :
            Shoelace(Corners(polygons[i]), 1) # 0 =>
                \A j \in 1..Len(polygons[i]) :
                    LET w == Inwardness(polygons[i], polygons[i][j],
                                        extracted.value.offset_polygons[i][j])
                    IN /\ offset_distance > 0 => w < 0
                       /\ offset_distance < 0 => w > 0

----------------------------------------------------------------------------
(* The start of every program *)

\* generate_gcode has emitted its initial setup
Started == gpc \in {"loop", "done"}

\* the first eight lines: mode setup, rapid move to safe Z, tool change,
\* rapid move to the staging position, spindle start, rapid descent to the
\* intermediate height, plunge to cut depth at the feed rate, coolant on
FirstEightLines ==
    /\ Len(gcode) >= 9
    /\ gcode[1] = Gline("G00 G54 G17 G90 G40", <<>>)
    /\ gcode[2].code = "G00"
    /\ Letters(gcode[2]) = {"Z"}
    /\ Word(gcode[2], "Z") = gc_config.z_safe
    /\ gcode[3] = Gline("M6 T07", <<>>)
    /\ gcode[4].code = "G00"
    /\ Letters(gcode[4]) = {"X", "Y"}
    /\ Word(gcode[4], "X") = 100 * Scale
    /\ Word(gcode[4], "Y") = 100 * Scale
    /\ gcode[5] = Gline("M03 S500", <<>>)
    /\ gcode[6].code = "G00"
    /\ Letters(gcode[6]) = {"Z"}
    /\ Word(gcode[6], "Z") = 2
    /\ gcode[7].code = "G01"
    /\ Letters(gcode[7]) = {"Z", "F"}
    /\ Word(gcode[7], "Z") = gc_config.z_cut
    /\ Word(gcode[7], "F") = gc_config.feed_rate
    /\ gcode[8] = Gline("M07", <<>>)

\* the ninth line moves to the fixed start offset
NinthLineToStartOffset ==
    /\ Letters(gcode[9]) = {"X", "Y"}
    /\ Word(gcode[9], "X") = 80 * Scale
    /\ Word(gcode[9], "Y") = 0

\* C22 as stated: every program starts with the nine preamble lines in
\* order, the ninth a rapid move (G00) with cutter compensation enabled,
\* whatever the entities. The code emits the ninth line as G01 G42.
C22_PreambleEndsWithRapidMove ==
    Started =>
        /\ FirstEightLines
        /\ NinthLineToStartOffset
        /\ gcode[9].code = "G00 G42"

\* C22 amended: every program starts with the nine preamble lines in order,
\* the ninth a linear move (G01) with cutter compensation enabled to the
\* fixed start offset; the lines depend on the settings of the call only,
\* not on the entities.
C22_PreambleEndsWithLinearMove ==
    Started =>
        /\ FirstEightLines
        /\ NinthLineToStartOffset
        /\ gcode[9].code = "G01 G42"

\* a finished program for two entities under settings that are not the defaults
C22_Witness ==
    /\ gpc = "done"
    /\ Len(gc_results) = 2
    /\ gc_config = [feed_rate |-> 150, z_safe |-> 50, z_cut |-> -1]
    /\ gcode[9].code = "G01 G42"
    /\ Word(gcode[7], "F") = 150

----------------------------------------------------------------------------
(* The shape of the returned polygons *)

\* C23: every polygon returned by group_lines_into_polygon has at least 2
\* segments, each segment ends exactly where the next starts and the last
\* ends exactly where the first starts; every segment of it is an input
\* segment or the flip of one, and no input segment is used in two
\* polygons (or twice in one).
C23_PolygonsAreClosedChains ==
    /\ \A i \in 1..Len(polygons) :
          LET polygon == polygons[i]
              n == Len(polygon)
          IN /\ n >= 2
             /\ \A j \in 1..(n - 1) : polygon[j][2] = polygon[j + 1][1]
             /\ polygon[n][2] = polygon[1][1]
             /\ \A j \in 1..n :
                   polygon[j] \in SeqRange(lines) \/ Flip(polygon[j]) \in SeqRange(lines)
    /\ \A u \in AllUndirected : UsesIn(polygons, u) <= Supply(u)

\* two polygons returned from four segments
C23_Witness ==
    /\ Grouped
    /\ Len(lines) = 4
    /\ Len(polygons) = 2
    /\ polygons[1][1][1] # polygons[2][1][1]

----------------------------------------------------------------------------
(* The corners of an offset polygon *)

Cross(u, v) == u[1] * v[2] - u[2] * v[1]

Direction(edge) == <<edge[2][1] - edge[1][1], edge[2][2] - edge[1][2]>>

AreParallel(e1, e2) == Cross(Direction(e1), Direction(e2)) = 0

\* v is num / den rounded to a nearest integer
IsRounding(v, num, den) == 2 * Abs(v * den - num) <= Abs(den)

\* point is, rounded to 2 decimals, where the line through e1 meets the
\* line through e2: e1[1] + t * Direction(e1) with
\* t = Cross(e2[1] - e1[1], Direction(e2)) / Cross(Direction(e1), Direction(e2))
IsCornerOf(point, e1, e2) ==
    LET den == Cross(Direction(e1), Direction(e2))
        num == Cross(<<e2[1][1] - e1[1][1], e2[1][2] - e1[1][2]>>, Direction(e2))
    IN /\ IsRounding(point[1], e1[1][1] * den + num * Direction(e1)[1], den)
       /\ IsRounding(point[2], e1[1][2] * den + num * Direction(e1)[2], den)

NextEdge(polygon, i) == polygon[(i % Len(polygon)) + 1]

\* the pairs of polygon, up to pair i, whose edges are not parallel
Crossing(polygon, i) ==
    {j \in 1..i : ~ AreParallel(polygon[j], NextEdge(polygon, j))}

\* C24: for an offset polygon with n edges the intersector forms exactly
\* the n pairs (edge i, edge (i+1) mod n) of that polygon, and the list of
\* points holds one point per pair that is not parallel, in edge order,
\* each the intersection of the lines of its two edges: n points when no
\* pair is parallel, n - k points when k pairs are.
C24_OnePointPerAdjacentPair ==
    \A q \in 1..Len(intersection_points_per_polygon) :
        LET polygon == preview_polygons[q]
            n == Len(polygon)
            pairs == equations_sets_per_polygon[q]
            points == intersection_points_per_polygon[q]
        IN /\ Len(pairs) = n
           /\ \A i \in 1..n :
                 pairs[i] = <<calculate_line_equation(polygon[i]),
                              calculate_line_equation(NextEdge(polygon, i))>>
           /\ Len(points) = Cardinality(Crossing(polygon, n))
           /\ \A i \in Crossing(polygon, n) :
                 IsCornerOf(points[Cardinality(Crossing(polygon, i))],
                            polygon[i], NextEdge(polygon, i))

----------------------------------------------------------------------------
(* Records placed reversed *)

\* C25: when the chainer places an entity reversed, the placed record has
\* start_point and end_point swapped, the reference-frame start and end
\* points swapped, the direction flipped between Clockwise and
\* Anti-clockwise when one is set and left absent when none is, and radius,
\* center and reference-frame center unchanged; reversing the placed record
\* again gives back the geometry of the original.
C25_ReversedRecordIsMirror ==
    [][(Places /\ arranged'[Len(arranged')].ref = 0) =>
          \E k \in 1..Len(remaining) :
             /\ remaining' = RemoveAt(remaining, k)
             /\ LET original == results[remaining[k]]
                    placed == arranged'[Len(arranged')].entity
                IN /\ placed.start_point = original.end_point
                   /\ placed.end_point = original.start_point
                   /\ placed.start_point_wcs = original.end_point_wcs
                   /\ placed.end_point_wcs = original.start_point_wcs
                   /\ original.direction = "Clockwise"
                         => placed.direction = "Anti-clockwise"
                   /\ original.direction = "Anti-clockwise"
                         => placed.direction = "Clockwise"
                   /\ original.direction = NoDirection
                         => placed.direction = NoDirection
                   /\ placed.radius = original.radius
                   /\ placed.center = original.center
                   /\ placed.center_wcs = original.center_wcs
                   /\ Geometry(reversed_entity(placed)) = Geometry(original)]_vars

\* an arc and a line were both placed reversed
C25_Witness ==
    /\ cpc = "done"
    /\ \E i, j \in 1..Len(arranged) :
          /\ arranged[i].ref = 0
          /\ arranged[i].entity.direction = "Clockwise"
          /\ arranged[j].ref = 0
          /\ arranged[j].entity.direction = NoDirection

----------------------------------------------------------------------------
(* What the chainer does to the caller's list *)

\* C26: arrange_entities_systematically leaves the caller's list with the
\* same records in the same order; no step changes the start_point,
\* end_point, reference-frame points, radius, direction or center of an
\* input record, also when the entity is placed reversed (the reversed
\* record is a new one, and the input record of such an entity is not
\* written at all); only sl_no and name of records are written.
C26_InputGeometryUntouched ==
    [][/\ Len(results') = Len(results)
       /\ \A i \in 1..Len(results) :
             /\ Geometry(results'[i]) = Geometry(results[i])
             /\ (cpc' = "done" /\ ~ \E k \in 1..Len(arranged') : arranged'[k].ref = i)
                   => results'[i] = results[i]]_vars

\* a run that placed the second input entity reversed: its input record is
\* as it was, the first one carries its serial number
C26_Witness ==
    /\ cpc = "done"
    /\ Len(results) = 2
    /\ arranged[1].ref = 1
    /\ arranged[2].ref = 0
    /\ arranged[2].entity.sl_no = 2
    /\ results[1].sl_no = 1
    /\ results[2].sl_no = 0
    /\ results[2].end_point = arranged[2].entity.start_point
    /\ results[2].end_point # results[2].start_point

----------------------------------------------------------------------------
(* The corner of two segments *)

\* the exact point (two quotients with one denominator) lies on the line
\* through the end points of seg
OnLineThrough(seg, point) ==
    LET d == Direction(seg)
        den == point[1][2]
    IN d[1] * (point[2][1] - seg[1][2] * den) - d[2] * (point[1][1] - seg[1][1] * den) = 0

\* the end points two segments have in common
SharedEndPoints(seg1, seg2) == {seg1[1], seg1[2]} \cap {seg2[1], seg2[2]}

CornerReturned == corner_call # <<>> /\ corner_result # <<>>

CornerSegmentsCross == ~ AreParallel(corner_call[1], corner_call[2])

\* C27 as stated: for two non-parallel segments the point returned for
\* their two derived equations lies on the line through each segment, and
\* is the shared end point when the segments share one. In floating point
\* the returned coordinates carry a rounding error.
C27_ReturnsTheCorner ==
    (CornerReturned /\ CornerSegmentsCross) =>
        /\ corner_result[1].found
        /\ corner_result[1].error = <<0, 0>>
        /\ OnLineThrough(corner_call[1], corner_result[1].point)
        /\ OnLineThrough(corner_call[2], corner_result[1].point)
        /\ \A p \in SharedEndPoints(corner_call[1], corner_call[2]) :
              /\ SameFraction(corner_result[1].point[1], <<p[1], 1>>)
              /\ SameFraction(corner_result[1].point[2], <<p[2], 1>>)

\* C27 amended: for two non-parallel segments the point returned for their
\* two derived equations is, up to the rounding error of the floating-point
\* quotients, the point lying on the line through each segment; when the
\* segments share an end point, the returned point rounded to 2 decimals
\* is that end point.
C27_ReturnsTheCornerUpToRounding ==
    (CornerReturned /\ CornerSegmentsCross) =>
        /\ corner_result[1].found
        /\ OnLineThrough(corner_call[1], corner_result[1].point)
        /\ OnLineThrough(corner_call[2], corner_result[1].point)
        /\ \A p \in SharedEndPoints(corner_call[1], corner_call[2]) :
              /\ RoundedValues(corner_result[1].point[1]) = {p[1]}
              /\ RoundedValues(corner_result[1].point[2]) = {p[2]}

\* the corner of (0, 0)-(0.03, 0.04) and (0.03, 0.04)-(1, 0), returned as
\* (0.029999999999999995, 0.04)
C27_Witness ==
    /\ corner_call = <<(<<(<<0, 0>>), (<<3, 4>>)>>), (<<(<<3, 4>>), (<<Scale, 0>>)>>)>>
    /\ corner_result # <<>>
    /\ corner_result[1].error = <<-1, 0>>
    /\ RoundedValues(corner_result[1].point[1]) = {3}
    /\ RoundedValues(corner_result[1].point[2]) = {4}

----------------------------------------------------------------------------
(* What the polygon-offset run returns *)

\* moved is edge translated, without turning, at a right angle to itself
IsTranslateOf(moved, edge) ==
    /\ Direction(moved) = Direction(edge)
    /\ (moved[1][1] - edge[1][1]) * Direction(edge)[1]
       + (moved[1][2] - edge[1][2]) * Direction(edge)[2] = 0

\* the run returned one offset polygon per reconstructed polygon, each with
\* the edges of its polygon, offset, in the same order
ReturnedOnePerPolygon ==
    /\ ~ returned.raised
    /\ returned.value.polygons = polygons
    /\ returned.value.offset_polygons # None
    /\ Len(returned.value.offset_polygons) = Len(polygons)
    /\ \A i \in 1..Len(polygons) :
          /\ Len(returned.value.offset_polygons[i]) = Len(polygons[i])
          /\ \A j \in 1..Len(polygons[i]) :
                IsTranslateOf(returned.value.offset_polygons[i][j], polygons[i][j])

\* C28 as stated: a zero-length segment in any reconstructed polygon makes
\* the run return no result at all, for every polygon; a run without one
\* returns one offset polygon per reconstructed polygon, with the same
\* number of edges in the same order. A run that reconstructs no polygon
\* returns no result either.
C28_NoResultIffZeroLength ==
    ppc = "returned" =>
        /\ HasZeroLength(polygons) => returned = Returned(NoneTriple)
        /\ ~ HasZeroLength(polygons) => ReturnedOnePerPolygon

\* C28 amended: a zero-length segment in any reconstructed polygon makes
\* the run return no result at all (no document, no polygons, no offset
\* polygons), for every polygon of the drawing; so does a run that
\* reconstructs no polygon; a run that reconstructs at least one polygon
\* and no zero-length segment returns one offset polygon per reconstructed
\* polygon, with the same number of edges in the same order.
C28_NoResultIffZeroLengthOrNoPolygon ==
    ppc = "returned" =>
        /\ (HasZeroLength(polygons) \/ polygons = <<>>)
              => returned = Returned(NoneTriple)
        /\ (~ HasZeroLength(polygons) /\ polygons # <<>>) => ReturnedOnePerPolygon

\* a reconstructed polygon with a zero-length segment next to segments that
\* could be offset: nothing is returned, not even the polygons
C28_Witness ==
    /\ ppc = "returned"
    /\ polygons # <<>>
    /\ HasZeroLength(polygons)
    /\ \E j \in 1..Len(polygons[1]) : polygons[1][j][1] # polygons[1][j][2]
    /\ returned = Returned(NoneTriple)

----------------------------------------------------------------------------
(* Whether the grouping depends on the order in which the set is visited *)

LeastSegment(segs) == CHOOSE l \in segs : \A m \in segs : SegLeq(l, m)

\* lines 56-71 with the scan visiting the unvisited segments in key order:
\* the chain and the segments left when nothing matches any more
RECURSIVE chain_in_key_order(_, _)
chain_in_key_order(polygon, unvisited) ==
    LET last == polygon[Len(polygon)]
        matching == {l \in unvisited : Matches(last, l)}
    IN IF matching = {} THEN <<polygon, unvisited>>
       ELSE LET other_line == LeastSegment(matching)
            IN chain_in_key_order(Append(polygon, Oriented(last, other_line)),
                                  unvisited \ {other_line})

\* lines 52-78 with set.pop() handing out the least unvisited segment
RECURSIVE polygons_in_key_order(_, _)
polygons_in_key_order(unvisited, found) ==
    IF unvisited = {} THEN found
    ELSE LET seed == LeastSegment(unvisited)
             chain == chain_in_key_order(<<seed>>, unvisited \ {seed})
         IN polygons_in_key_order(chain[2],
                                  IF IsKept(chain[1])
                                  THEN Append(found, chain[1])
                                  ELSE found)

\* a list of polygons, each regarded as a set of undirected segments
AsUndirectedSets(polys) ==
    {{Unoriented(seg) : seg \in SeqRange(p)} : p \in SeqRange(polys)}

\* C29: the set of polygons, each regarded as a set of undirected segments,
\* does not depend on which segment is popped as seed nor on the scan
\* order: every run gives the polygons of the run that visits the segments
\* in key order.
C29_GroupingIndependentOfOrder ==
    Grouped =>
        AsUndirectedSets(polygons)
          = AsUndirectedSets(polygons_in_key_order(SeqRange(lines), <<>>))

----------------------------------------------------------------------------
(* Termination of the chainer *)

\* one pass of the main loop (lines 99-110)
MainLoopIteration == cpc = "loop" /\ remaining # <<>>

\* exactly one entity leaves remaining and exactly one entry, made of that
\* entity, is added at the end of arranged
MovesOneEntity ==
    /\ Len(arranged') = Len(arranged) + 1
    /\ SubSeq(arranged', 1, Len(arranged)) = arranged
    /\ \E r \in 1..Len(remaining) :
          /\ remaining' = RemoveAt(remaining, r)
          /\ LET placed == arranged'[Len(arranged')].entity
                 taken == results[remaining[r]]
             IN Geometry(placed) = Geometry(taken) \/ IsReversalOf(placed, taken)

\* C30: every call terminates; every iteration of the main loop moves
\* exactly one entity from remaining to arranged, so the loop is left with
\* nothing in remaining after placing the N - 1 entities that follow the
\* seed (one per iteration); an empty input returns an empty sequence.
C30_AlwaysTerminates ==
    /\ <>(cpc = "done")
    /\ [][MainLoopIteration => MovesOneEntity]_vars
    /\ [](cpc = "loop" => /\ Len(arranged) >= 1
                          /\ Len(arranged) + Len(remaining) = Len(results))
    /\ [][(cpc = "call" /\ cpc' = "loop") => Len(arranged') = 1]_vars
    /\ [](cpc = "done" => /\ remaining = <<>>
                          /\ Len(arranged) = Len(results))

\* a call on three entities that ended after two iterations, one of which
\* found a connected entity and one of which started a new chain
C30_Witness ==
    /\ cpc = "done"
    /\ Len(results) = 3
    /\ Len(arranged) = 3
    /\ remaining = <<>>
    /\ are_points_equal(arranged[1].entity.end_point, arranged[2].entity.start_point)
    /\ ~ are_points_equal(arranged[2].entity.end_point, arranged[3].entity.start_point)

====
